---- MODULE Spec2Model ----
(***************************************************************************)
(* Bilateral price negotiation: the buyer strategy (YourBuyerAgent), the   *)
(* mock seller (MockSellerAgent) and the negotiation loop                  *)
(* (run_negotiation_test) of src/negotiation_agent_[Codesisters].py.       *)
(* src/agent.py holds the same buyer and loop, line for line.              *)
(*                                                                         *)
(* Prices are Python ints.  The strategies compute with IEEE-754 doubles   *)
(* and convert back with int() (truncation) or round(); the operators      *)
(* FlErr, IntMul and RoundMul below reproduce the double arithmetic with   *)
(* integer arithmetic, including the cases where the double product falls  *)
(* just short of an integer (int(100 * 1.15) is 114).                      *)
(***************************************************************************)
EXTENDS Integers, Sequences, FiniteSets, TLC

VARIABLES
    product,        \* context.product: the Product record
    your_budget,    \* context.your_budget
    current_round,  \* context.current_round
    seller_offers,  \* context.seller_offers
    your_offers,    \* context.your_offers
    messages,       \* context.messages, as the sequence of their roles
    min_price,      \* MockSellerAgent.min_price
    round_num,      \* loop variable of run_negotiation_test
    seller_price,   \* local seller_price (also the argument of a direct call)
    buyer_offer,    \* local buyer_offer
    status,         \* local status (a DealStatus)
    seller_accepts, \* local seller_accepts
    deal_made,      \* local deal_made
    final_price,    \* local final_price: None or Some(price)
    pc,             \* position in run_negotiation_test, or in a direct call
    ret,            \* value returned by a direct call of a strategy operation
    buyer_agent,    \* the YourBuyerAgent object: its name and personality
    parked,         \* a second call of run_negotiation_test that uses the same
                    \* buyer_agent, while it is not taking a step: its context
                    \* and locals, or None when there is one negotiation only
    seller_agent    \* the YourSellerAgent object of a direct call: its
                    \* attributes, or None when there is no such object

vars == <<product, your_budget, current_round, seller_offers, your_offers,
          messages, min_price, round_num, seller_price, buyer_offer, status,
          seller_accepts, deal_made, final_price, pc, ret, buyer_agent, parked,
          seller_agent>>

ctx == <<product, your_budget, current_round, seller_offers, your_offers, messages>>

----------------------------------------------------------------------------
(* Bounds of the model *)

\* negotiations over the small products: budget and seller_min up to MaxPrice
MaxPrice == 45
\* direct calls over the small product: budget and prices up to CallMaxPrice
CallMaxPrice == 20
\* largest base_market_price of the pricing-model inputs
MaxBase == 150
\* direct calls of the strategy take any current_round in 0 .. MaxRound
MaxRound == 11

----------------------------------------------------------------------------
(* Python values *)

None == <<>>
Some(x) == <<x>>

Min(a, b) == IF a <= b THEN a ELSE b
Max(a, b) == IF a >= b THEN a ELSE b
Abs(a) == IF a >= 0 THEN a ELSE -a

\* DealStatus
ONGOING == "ongoing"
ACCEPTED == "accepted"
REJECTED == "rejected"
TIMEOUT == "timeout"
DealStatus == {ONGOING, ACCEPTED, REJECTED, TIMEOUT}

\* a local variable of run_negotiation_test before its first assignment holds
\* nothing the code can read: status is Unbound, round_num is -1, the prices
\* are 0, the flags are FALSE
Unbound == "unbound"

----------------------------------------------------------------------------
(* IEEE-754 double arithmetic on the quantities the strategies use.        *)
(*                                                                         *)
(* A float literal c close to the decimal p/q is the record                *)
(* [p, q, r, j]: c lies in [2^j, 2^(j+1)), c = m / 2^(52-j) for an integer *)
(* m, and r = p * 2^(52-j) - m * q, so that p/q - c = r / (q * 2^(52-j)).  *)
(* r > 0: the double is below the decimal; r < 0: above; r = 0: exact.     *)

Flt(p, q, r, j) == [p |-> p, q |-> q, r |-> r, j |-> j]

RECURSIVE Pow2(_)
Pow2(n) == IF n <= 0 THEN 1 ELSE 2 * Pow2(n - 1)

\* floor(log2 n) for n >= 1
RECURSIVE Log2(_)
Log2(n) == IF n <= 1 THEN 0 ELSE 1 + Log2(n \div 2)

\* The operand is h/2 for an integer h >= 0 (an int, or the midpoint of two
\* ints).  When the decimal product V = (h/2) * (p/q) is an integer or a half
\* integer, the double product fl((h/2) * c) is V itself or a neighbouring
\* double: FlErr is the sign of fl((h/2) * c) - V.  With 2^E <= V < 2^(E+1)
\* the doubles around V are 2^(E-52) apart (2^(E-53) below V = 2^E), and the
\* product is off V by (h/2) * |r| / (q * 2^(52-j)); it rounds away from V
\* when that exceeds half the spacing (a tie rounds to V, whose mantissa is
\* even).
FlErr(h, c) ==
    LET N == h * c.p
        V == N \div (2 * c.q)
        E == IF V >= 1 THEN Log2(V) ELSE -1
        isPow2 == N = 2 * c.q * Pow2(E) /\ V >= 1
        lim == c.q * Pow2(E - c.j + 1)
    IN  IF h = 0 \/ c.r = 0 THEN 0
        ELSE IF c.r > 0
             THEN IF (IF isPow2 THEN 4 ELSE 2) * h * c.r > lim THEN -1 ELSE 0
             ELSE IF 2 * h * (-c.r) > lim THEN 1 ELSE 0

\* int((h/2) * c): truncation of the double product
IntMulHalf(h, c) ==
    LET N == h * c.p
        D == 2 * c.q
    IN  IF N % D = 0 /\ FlErr(h, c) = -1 THEN (N \div D) - 1 ELSE N \div D

\* int(x * c) for an int x >= 0
IntMul(x, c) == IntMulHalf(2 * x, c)

\* round() of a double that lies at or next to the decimal value fl + rem/den
\* (tie is the sign of double - decimal, used when the decimal is half way):
\* Python rounds a double exactly half way between two ints to the even one
RoundHalfEven(fl, rem, den, tie) ==
    IF 2 * rem < den THEN fl
    ELSE IF 2 * rem > den THEN fl + 1
    ELSE IF tie < 0 THEN fl
    ELSE IF tie > 0 THEN fl + 1
    ELSE IF fl % 2 = 0 THEN fl ELSE fl + 1

\* int(round(x * c)) for an int x >= 0
RoundMul(x, c) ==
    LET N == x * c.p
    IN  RoundHalfEven(N \div c.q, N % c.q, c.q,
                      IF 2 * (N % c.q) = c.q THEN FlErr(2 * x, c) ELSE 0)

\* the float literals of the buyer, the loop and the mock seller
F078 == Flt(78, 100, -24, -1)
F088 == Flt(88, 100, -4, -1)
F097 == Flt(97, 100, 24, -1)
F085 == Flt(85, 100, 20, -1)
F090 == Flt(90, 100, -20, -1)
F092 == Flt(92, 100, -36, -1)
\* 0.15 in place of 0.015
F015 == Flt(15, 100, 20, -3)
F0015 == Flt(15, 1000, 320, -7)
F115 == Flt(115, 100, 40, 0)
F105 == Flt(105, 100, -20, 0)
F095 == Flt(95, 100, 40, -1)
F098 == Flt(98, 100, 16, -1)
F100 == Flt(1, 1, 0, 0)
F150 == Flt(3, 2, 0, 0)
F110 == Flt(11, 10, -4, 0)
\* the sums 1 + step, as the double addition gives them
F1p07 == Flt(107, 100, -28, 0)
F1p045 == Flt(1045, 1000, 320, 0)
F1p03 == Flt(103, 100, -12, 0)

----------------------------------------------------------------------------
(* Strings: a str is the sequence of its characters *)

UpperCase == <<"A","B","C","D","E","F","G","H","I","J","K","L","M",
               "N","O","P","Q","R","S","T","U","V","W","X","Y","Z">>
LowerCase == <<"a","b","c","d","e","f","g","h","i","j","k","l","m",
               "n","o","p","q","r","s","t","u","v","w","x","y","z">>

LowerChar(ch) ==
    IF \E i \in 1..26 : UpperCase[i] = ch
    THEN LowerCase[CHOOSE i \in 1..26 : UpperCase[i] = ch]
    ELSE ch

\* str.lower()
Lower(s) == [i \in 1..Len(s) |-> LowerChar(s[i])]

\* str.strip(): without the leading and the trailing blanks
RECURSIVE LStrip(_)
LStrip(s) == IF s # <<>> /\ Head(s) = " " THEN LStrip(Tail(s)) ELSE s
RECURSIVE RStrip(_)
RStrip(s) == IF s # <<>> /\ s[Len(s)] = " " THEN RStrip(SubSeq(s, 1, Len(s) - 1)) ELSE s
Strip(s) == RStrip(LStrip(s))

----------------------------------------------------------------------------
(* Pricing model of the buyer *)

RECURSIVE GCD(_, _)
GCD(a, b) == IF b = 0 THEN a ELSE GCD(b, a % b)

\* _quality_multiplier with the seller's factor for grade A
quality_multiplier_seller(p) ==
    LET q == Lower(Strip(p.quality_grade))
    IN  IF q = <<"e","x","p","o","r","t">> THEN F115
        ELSE IF q = <<"a">> THEN Flt(106, 100, -24, 0)
        ELSE IF q = <<"b">> THEN F095
        ELSE F100

\* YourBuyerAgent._quality_multiplier
quality_multiplier(p) ==
    LET q == Lower(Strip(p.quality_grade))
    IN  IF q = <<"e","x","p","o","r","t">> THEN F115
        ELSE IF q = <<"a">> THEN F105
        ELSE IF q = <<"b">> THEN F095
        ELSE F100

BonusOrigins == { <<"c","o","l","o","m","b","i","a">>,
                  <<"e","t","h","i","o","p","i","a">>,
                  <<"y","i","r","g","a","c","h","e","f","f","e">> }

origin_factor(p) == IF Lower(p.origin) \in BonusOrigins THEN F105 ELSE F100

volume_factor(p) == IF p.quantity >= 200 THEN F098 ELSE F100

\* <<(a * b) \div q, (a * b) % q>> for 0 <= a < q and b >= 0, computed by
\* doubling so that no intermediate value exceeds 3 * q
RECURSIVE MulDivMod(_, _, _)
MulDivMod(a, b, q) ==
    IF b = 0 THEN <<0, 0>>
    ELSE LET h == MulDivMod(a, b \div 2, q)
             dq == 2 * h[1] + (2 * h[2]) \div q
             dr == (2 * h[2]) % q
         IN  IF b % 2 = 0 THEN <<dq, dr>>
             ELSE <<dq + (dr + a) \div q, (dr + a) % q>>

(* A chain of double multiplications, exactly.  A natural number beyond the  *)
(* int range is the sequence of its digits in base 8192 = 2^13, lowest      *)
(* first; a double is [m, e] for the value m * 2^e with m below 2^53.       *)

RECURSIVE BigOf(_)
BigOf(n) == IF n = 0 THEN <<>> ELSE <<n % 8192>> \o BigOf(n \div 8192)

RECURSIVE BigTrim(_)
BigTrim(a) ==
    IF a # <<>> /\ a[Len(a)] = 0 THEN BigTrim(SubSeq(a, 1, Len(a) - 1)) ELSE a

\* a + c for an int c with a + c >= 0
RECURSIVE BigAddInt(_, _)
BigAddInt(a, c) ==
    IF a = <<>> THEN (IF c = 0 THEN <<>> ELSE <<c>>)
    ELSE <<(a[1] + c) % 8192>> \o BigAddInt(Tail(a), (a[1] + c) \div 8192)

\* a * d + acc + c for a digit d
RECURSIVE BigMulAdd(_, _, _, _)
BigMulAdd(a, d, acc, c) ==
    IF a = <<>> /\ acc = <<>> THEN (IF c = 0 THEN <<>> ELSE <<c>>)
    ELSE LET t == (IF a = <<>> THEN 0 ELSE a[1] * d)
                  + (IF acc = <<>> THEN 0 ELSE acc[1]) + c
         IN  <<t % 8192>> \o BigMulAdd(IF a = <<>> THEN <<>> ELSE Tail(a), d,
                                       IF acc = <<>> THEN <<>> ELSE Tail(acc),
                                       t \div 8192)

RECURSIVE BigMul(_, _)
BigMul(a, b) ==
    IF b = <<>> THEN <<>>
    ELSE BigMulAdd(a, b[1], <<0>> \o BigMul(a, Tail(b)), 0)

\* the digits 1 .. i of a \div q for a small q, rem the remainder of the
\* digits above i
RECURSIVE BigDivSmall(_, _, _, _)
BigDivSmall(a, q, i, rem) ==
    IF i = 0 THEN <<>>
    ELSE BigDivSmall(a, q, i - 1, (rem * 8192 + a[i]) % q)
         \o <<(rem * 8192 + a[i]) \div q>>

\* 2^s
BigPow2(s) == [i \in 1..(s \div 13) |-> 0] \o <<Pow2(s % 13)>>

\* number of bits of a, the highest digit of a not 0
BigBits(a) == IF a = <<>> THEN 0 ELSE 13 * (Len(a) - 1) + Log2(a[Len(a)]) + 1

\* bit i of a, the lowest bit being bit 0
BigBit(a, i) ==
    IF i \div 13 + 1 > Len(a) THEN 0 ELSE (a[i \div 13 + 1] \div Pow2(i % 13)) % 2

\* the bits of a below bit n are all 0
BigLowZero(a, n) ==
    \A k \in 1..Len(a) :
        /\ 13 * k <= n => a[k] = 0
        /\ k = n \div 13 + 1 => a[k] % Pow2(n % 13) = 0

\* the digits of a from digit ls + 1 on, shifted right by bs < 13 bits
BigShiftDigits(a, ls, bs) ==
    [i \in 1..Max(Len(a) - ls, 0) |->
        (a[i + ls] \div Pow2(bs))
        + (IF i + ls + 1 <= Len(a)
           THEN (a[i + ls + 1] % Pow2(bs)) * Pow2(13 - bs)
           ELSE 0)]

\* a \div 2^s
BigShiftRight(a, s) == BigShiftDigits(a, s \div 13, s % 13)

\* the sign of a - b for a and b of i digits, from the highest digit down
RECURSIVE BigCmpFrom(_, _, _)
BigCmpFrom(a, b, i) ==
    IF i = 0 THEN 0
    ELSE IF a[i] > b[i] THEN 1
    ELSE IF a[i] < b[i] THEN -1
    ELSE BigCmpFrom(a, b, i - 1)

\* the sign of a - b, the highest digits of a and b not 0
BigCmp(a, b) ==
    IF Len(a) > Len(b) THEN 1
    ELSE IF Len(a) < Len(b) THEN -1
    ELSE BigCmpFrom(a, b, Len(a))

\* the double [a \div q, e] for a multiple a of q
FloatOfNumer(a, q, e) == [m |-> BigTrim(BigDivSmall(a, q, Len(a), 0)), e |-> e]

\* the double of a float literal: m = (p * 2^(52-j) - r) / q, e = j - 52
FloatOf(c) ==
    FloatOfNumer(BigAddInt(BigMul(BigOf(c.p), BigPow2(52 - c.j)), -c.r), c.q, c.j - 52)

\* 1 if prod \div 2^s is rounded up, ties to even
FloatRoundUp(prod, s) ==
    IF /\ BigBit(prod, s - 1) = 1
       /\ (~BigLowZero(prod, s - 1) \/ BigBit(prod, s) = 1)
    THEN 1 ELSE 0

\* prod * 2^e rounded to 53 bits, prod of 53 + s bits
FloatRoundAt(prod, e, s) ==
    IF s <= 0 THEN [m |-> prod, e |-> e]
    ELSE [m |-> BigAddInt(BigShiftRight(prod, s), FloatRoundUp(prod, s)), e |-> e + s]

FloatRound(prod, e) == FloatRoundAt(prod, e, BigBits(prod) - 53)

\* the double x * y
FloatMul(x, y) == FloatRound(BigTrim(BigMul(x.m, y.m)), x.e + y.e)

\* the double x * fs[1] * ... * fs[n], taken from left to right
RECURSIVE FloatChain(_, _)
FloatChain(x, fs) ==
    IF fs = <<>> THEN x ELSE FloatChain(FloatMul(x, FloatOf(Head(fs))), Tail(fs))

\* the sign of x - (k + 1/2) for a double x with x.e < 0
FloatCmpHalf(x, k) ==
    BigCmp(BigTrim(x.m), BigTrim(BigMul(BigOf(2 * k + 1), BigPow2(-(x.e + 1)))))

\* round of the double base * fs[1] * ... * fs[n] whose decimal value is
\* fl + rem / den: the doubles' error (below 1e-9) moves the result only when
\* the decimal value is half way between two ints, and there the chain of
\* double products decides
RoundChain(base, fs, fl, rem, den) ==
    RoundHalfEven(fl, rem, den,
                  IF 2 * rem = den
                  THEN FloatCmpHalf(FloatChain([m |-> BigOf(base), e |-> 0], fs), fl)
                  ELSE 0)

\* int(round(base * f1 * f2 * f3)), the product taken from left to right.
\* A factor 1.0 leaves the double unchanged.  With at most one other factor
\* the double product is that of RoundMul.  With two or three, the decimal
\* product is base * P / Q.
RoundProduct(base, f1, f2, f3) ==
    LET fs == SelectSeq(<<f1, f2, f3>>, LAMBDA f : f # F100)
        P0 == f1.p * f2.p * f3.p
        Q0 == f1.q * f2.q * f3.q
        g == GCD(P0, Q0)
        P == P0 \div g
        Q == Q0 \div g
        bq == base \div Q
        br == MulDivMod(base % Q, P, Q)
    IN  IF fs = <<>> THEN base
        ELSE IF Len(fs) = 1 THEN RoundMul(base, fs[1])
        ELSE RoundChain(base, fs, bq * P + br[1], br[2], Q)

\* YourBuyerAgent.calculate_fair_price
calculate_fair_price(p) ==
    RoundProduct(p.base_market_price, quality_multiplier(p), origin_factor(p),
                 volume_factor(p))

\* target_zone whose lower end is 85% of the fair price
target_zone_wide(p) ==
    LET fair == calculate_fair_price(p)
    IN  <<IntMul(fair, F085), IntMul(fair, F097)>>

\* target_zone whose upper end is 92% of the fair price
target_zone_narrow(p) ==
    LET fair == calculate_fair_price(p)
    IN  <<IntMul(fair, F088), IntMul(fair, F092)>>

\* YourBuyerAgent.target_zone: <<low, high>>
target_zone(p) ==
    LET fair == calculate_fair_price(p)
    IN  <<IntMul(fair, F088), IntMul(fair, F097)>>

----------------------------------------------------------------------------
(* Buyer strategy: YourBuyerAgent.  A context is passed as its fields       *)
(* (p = product, budget = your_budget, round = current_round, offers =     *)
(* your_offers); a returned message is named by its wording.               *)

\* YourBuyerAgent.define_personality (the fields the strategy reads)
define_personality ==
    [personality_type |-> "diplomatic",
     catchphrases |-> <<"Let's find the number that respects both sides.",
                        "I'm aiming for a fair,repeatable deal.",
                        "Win-win or no deal.">>]

\* buyer(): the agent object that BaseBuyerAgent.__init__ builds
buyer == [name |-> "DiplomatBuyer", personality |-> define_personality]

\* generate_opening_offer without the clamp to the budget
generate_opening_offer_unclamped(p, budget) ==
    [offer |-> IntMul(calculate_fair_price(p), F078), message |-> "my opening is"]

\* generate_opening_offer with round() in place of int()
generate_opening_offer_rounded(p, budget) ==
    [offer |-> Min(RoundMul(calculate_fair_price(p), F078), budget),
     message |-> "my opening is"]

\* YourBuyerAgent.generate_opening_offer: (opening_price, message)
generate_opening_offer(p, budget) ==
    LET fair == calculate_fair_price(p)
        opening_price == Min(IntMul(fair, F078), budget)
    IN  [offer |-> opening_price, message |-> "my opening is"]

\* 1 + step of the concession schedule
concession_factor(round) ==
    LET rounds_left == 10 - round
    IN  IF rounds_left >= 6 THEN F1p07
        ELSE IF rounds_left >= 3 THEN F1p045
        ELSE F1p03

\* last_offer taken from the front of the history
last_offer_first(p, offers) ==
    IF offers # <<>> THEN offers[1]
    ELSE IntMul(calculate_fair_price(p), F078)

\* last_offer with 0 for an empty history
last_offer_zero_anchor(p, offers) ==
    IF offers # <<>> THEN offers[Len(offers)] ELSE 0

\* last_offer of respond_to_seller_offer
last_offer_of(p, offers) ==
    IF offers # <<>> THEN offers[Len(offers)]
    ELSE IntMul(calculate_fair_price(p), F078)

\* proposed_offer with the final bridging move from round 8 on
proposed_offer_bridging_from_8(p, budget, round, offers, sp) ==
    LET fair == calculate_fair_price(p)
        last_offer == last_offer_of(p, offers)
        target_point == Min(sp, budget)
        \* int(min(budget, max(last_offer, last_offer * (1 + step), midpoint * 0.97)))
        proposed == Min(budget,
                        Max(last_offer,
                            Max(IntMul(last_offer, concession_factor(round)),
                                IntMulHalf(last_offer + target_point, F097))))
    IN  IF round >= 8
        THEN Min(budget, Max(proposed, IntMul(fair, F090)))
        ELSE Min(proposed, Max(IntMul(fair, F092), last_offer))

\* proposed_offer without the cap of the rounds before round 9
proposed_offer_uncapped(p, budget, round, offers, sp) ==
    LET fair == calculate_fair_price(p)
        last_offer == last_offer_of(p, offers)
        target_point == Min(sp, budget)
        proposed == Min(budget,
                        Max(last_offer,
                            Max(IntMul(last_offer, concession_factor(round)),
                                IntMulHalf(last_offer + target_point, F097))))
    IN  IF round >= 9
        THEN Min(budget, Max(proposed, IntMul(fair, F090)))
        ELSE proposed

\* proposed of respond_to_seller_offer, after the round-dependent floor or cap
proposed_offer(p, budget, round, offers, sp) ==
    LET fair == calculate_fair_price(p)
        last_offer == last_offer_of(p, offers)
        target_point == Min(sp, budget)
        \* int(min(budget, max(last_offer, last_offer * (1 + step), midpoint * 0.97)))
        proposed == Min(budget,
                        Max(last_offer,
                            Max(IntMul(last_offer, concession_factor(round)),
                                IntMulHalf(last_offer + target_point, F097))))
    IN  IF round >= 9
        THEN Min(budget, Max(proposed, IntMul(fair, F090)))
        ELSE Min(proposed, Max(IntMul(fair, F092), last_offer))

\* respond_to_seller_offer whose zone accept does not look at the budget
respond_to_seller_offer_zone_unchecked(p, budget, round, offers, sp) ==
    LET fair == calculate_fair_price(p)
        zone == target_zone(p)
        low == zone[1]
        high == zone[2]
        proposed == proposed_offer(p, budget, round, offers, sp)
        counter_offer == Min(proposed, budget)
    IN  IF low <= sp /\ sp <= high
        THEN [status |-> ACCEPTED, offer |-> sp, message |-> "Agreed at"]
        ELSE IF sp <= budget /\ sp <= IntMul(fair, F085)
        THEN [status |-> ACCEPTED, offer |-> sp, message |-> "That's compelling"]
        ELSE IF sp <= budget /\ Abs(sp - proposed) <= IntMul(fair, F0015)
        THEN [status |-> ACCEPTED, offer |-> sp, message |-> "We're aligned"]
        ELSE IF sp <= Min(budget, proposed)
        THEN [status |-> ACCEPTED, offer |-> sp, message |-> "Fair enough"]
        ELSE IF round >= 9
        THEN [status |-> ONGOING, offer |-> counter_offer,
              message |-> "To bridge the gap"]
        ELSE [status |-> ONGOING, offer |-> counter_offer,
              message |-> "I appreciate your position"]

\* respond_to_seller_offer whose snap accept needs a price strictly below
\* int(fair * 0.85)
respond_to_seller_offer_snap_strict(p, budget, round, offers, sp) ==
    LET fair == calculate_fair_price(p)
        zone == target_zone(p)
        low == zone[1]
        high == zone[2]
        proposed == proposed_offer(p, budget, round, offers, sp)
        counter_offer == Min(proposed, budget)
    IN  IF sp <= budget /\ low <= sp /\ sp <= high
        THEN [status |-> ACCEPTED, offer |-> sp, message |-> "Agreed at"]
        ELSE IF sp <= budget /\ sp < IntMul(fair, F085)
        THEN [status |-> ACCEPTED, offer |-> sp, message |-> "That's compelling"]
        ELSE IF sp <= budget /\ Abs(sp - proposed) <= IntMul(fair, F0015)
        THEN [status |-> ACCEPTED, offer |-> sp, message |-> "We're aligned"]
        ELSE IF sp <= Min(budget, proposed)
        THEN [status |-> ACCEPTED, offer |-> sp, message |-> "Fair enough"]
        ELSE IF round >= 9
        THEN [status |-> ONGOING, offer |-> counter_offer,
              message |-> "To bridge the gap"]
        ELSE [status |-> ONGOING, offer |-> counter_offer,
              message |-> "I appreciate your position"]

\* respond_to_seller_offer without the guard that accepts a price at or below
\* the proposal
respond_to_seller_offer_unguarded(p, budget, round, offers, sp) ==
    LET fair == calculate_fair_price(p)
        zone == target_zone(p)
        low == zone[1]
        high == zone[2]
        proposed == proposed_offer(p, budget, round, offers, sp)
        counter_offer == Min(proposed, budget)
    IN  IF sp <= budget /\ low <= sp /\ sp <= high
        THEN [status |-> ACCEPTED, offer |-> sp, message |-> "Agreed at"]
        ELSE IF sp <= budget /\ sp <= IntMul(fair, F085)
        THEN [status |-> ACCEPTED, offer |-> sp, message |-> "That's compelling"]
        ELSE IF sp <= budget /\ Abs(sp - proposed) <= IntMul(fair, F0015)
        THEN [status |-> ACCEPTED, offer |-> sp, message |-> "We're aligned"]
        ELSE IF round >= 9
        THEN [status |-> ONGOING, offer |-> counter_offer,
              message |-> "To bridge the gap"]
        ELSE [status |-> ONGOING, offer |-> counter_offer,
              message |-> "I appreciate your position"]

\* YourBuyerAgent.respond_to_seller_offer: (status, price, message)
respond_to_seller_offer(p, budget, round, offers, sp) ==
    LET fair == calculate_fair_price(p)
        zone == target_zone(p)
        low == zone[1]
        high == zone[2]
        proposed == proposed_offer(p, budget, round, offers, sp)
        counter_offer == Min(proposed, budget)
    IN  IF sp <= budget /\ low <= sp /\ sp <= high
        THEN [status |-> ACCEPTED, offer |-> sp, message |-> "Agreed at"]
        ELSE IF sp <= budget /\ sp <= IntMul(fair, F085)
        THEN [status |-> ACCEPTED, offer |-> sp, message |-> "That's compelling"]
        ELSE IF sp <= budget /\ Abs(sp - proposed) <= IntMul(fair, F0015)
        THEN [status |-> ACCEPTED, offer |-> sp, message |-> "We're aligned"]
        ELSE IF sp <= Min(budget, proposed)
        THEN [status |-> ACCEPTED, offer |-> sp, message |-> "Fair enough"]
        ELSE IF round >= 9
        THEN [status |-> ONGOING, offer |-> counter_offer,
              message |-> "To bridge the gap"]
        ELSE [status |-> ONGOING, offer |-> counter_offer,
              message |-> "I appreciate your position"]

----------------------------------------------------------------------------
(* Mock seller: MockSellerAgent *)

\* MockSellerAgent.get_opening_price
get_opening_price(p) == IntMul(p.base_market_price, F150)

\* buyer_offer >= self.min_price * 1.1, the right side a double
GoodProfit(offer, mp) ==
    LET N == mp * F110.p
        n == N \div F110.q
    IN  IF N % F110.q # 0 THEN offer >= n + 1
        ELSE IF FlErr(2 * mp, F110) = 1 THEN offer >= n + 1
        ELSE offer >= n

\* respond_to_buyer whose counter-offers are not held at min_price
respond_to_buyer_unfloored(mp, offer, rnd) ==
    IF GoodProfit(offer, mp)
    THEN [price |-> offer, accepts |-> TRUE]
    ELSE IF rnd >= 8
    THEN [price |-> IntMul(offer, F105), accepts |-> FALSE]
    ELSE [price |-> IntMul(offer, F115), accepts |-> FALSE]

\* MockSellerAgent.respond_to_buyer: (price, seller_accepts)
respond_to_buyer(mp, offer, rnd) ==
    IF GoodProfit(offer, mp)
    THEN [price |-> offer, accepts |-> TRUE]
    ELSE IF rnd >= 8
    THEN [price |-> Max(mp, IntMul(offer, F105)), accepts |-> FALSE]
    ELSE [price |-> Max(mp, IntMul(offer, F115)), accepts |-> FALSE]

----------------------------------------------------------------------------
(* Seller strategy: YourSellerAgent.  The agent object is the record of    *)
(* its attributes.  BaseSellerAgent names its initialiser _init_, so       *)
(* YourSellerAgent() runs object.__init__ and sets no attribute; name and  *)
(* personality exist once _init_(name) has been called on the object.  A   *)
(* method that reads a missing attribute raises AttributeError.            *)

\* the float literals of the seller; 1.28 - 0.06 * s for s = 1, 2, 4 are the
\* doubles 1.22, 1.1600000000000001 and 1.04, and for s = 3 the double 1.1
F106 == Flt(106, 100, -24, 0)
F094 == Flt(94, 100, 48, -1)
F101 == Flt(101, 100, -4, 0)
F128 == Flt(128, 100, -12, 0)
F122 == Flt(122, 100, 12, 0)
F116 == Flt(116, 100, -64, 0)
F104 == Flt(104, 100, -16, 0)

\* YourSellerAgent.define_personality (the fields the strategy reads)
seller_define_personality ==
    [personality_type |-> "diplomatic",
     catchphrases |-> <<"Let's align on value and quality.",
                        "I prioritize repeat business over one-off wins.",
                        "We can bridge this thoughtfully.">>]

\* YourSellerAgent(): no attribute is set
NewSeller == [class |-> "YourSellerAgent"]

\* the object after _init_(name) has been called on it
InitialisedSeller(name) ==
    [class |-> "YourSellerAgent", name |-> name,
     personality |-> seller_define_personality]

\* what a call that raises AttributeError yields
AttributeError == [raised |-> "AttributeError"]

\* what a call that raises TypeError yields
TypeError == [raised |-> "TypeError"]

\* YourSellerAgent(*args): neither the class nor BaseSellerAgent defines
\* __init__ or __new__, so object's constructor runs and takes no arguments
NewYourSellerAgent(args) == IF args # <<>> THEN TypeError ELSE NewSeller

\* MockBuyerForSeller(*args): the class defines _init_, not __init__
NewMockBuyerForSeller(args) ==
    IF args # <<>> THEN TypeError ELSE [class |-> "MockBuyerForSeller"]

\* seller(): the factory
seller == NewYourSellerAgent(<<"DiplomatSeller">>)

\* self.personality can be read
HasPersonality(agent) == "personality" \in DOMAIN agent

\* _quality_multiplier of the seller with the buyer's factors
seller_quality_multiplier_as_buyer(p) == quality_multiplier(p)

\* YourSellerAgent._quality_multiplier
seller_quality_multiplier(p) ==
    LET q == Lower(Strip(p.quality_grade))
    IN  IF q = <<"e","x","p","o","r","t">> THEN F115
        ELSE IF q = <<"a">> THEN F106
        ELSE IF q = <<"b">> THEN F094
        ELSE F100

\* YourSellerAgent.fair_price
fair_price(p) ==
    RoundProduct(p.base_market_price, seller_quality_multiplier(p),
                 origin_factor(p), F101)

\* YourSellerAgent.seller_zone: <<low, high>>
seller_zone(p) ==
    LET fair == fair_price(p)
    IN  <<IntMul(fair, F100), IntMul(fair, F110)>>

\* YourSellerAgent.generate_opening_price: (opening, msg)
generate_opening_price(agent, p) ==
    LET fair == fair_price(p)
        opening == IntMul(fair, F128)
    IN  IF ~HasPersonality(agent) THEN AttributeError
        ELSE [price |-> opening, message |-> "my opening is"]

\* step_down_factor with a step below zero: 1.00 - 0.03 in every round
step_down_factor_negative(rn) == F097

\* step_down_factor without a step in the last rounds
step_down_factor_none_late(rn) ==
    LET rounds_left == 10 - (rn + 1)
    IN  IF rounds_left >= 6 THEN F1p07
        ELSE IF rounds_left >= 3 THEN F105
        ELSE F100

\* 1.00 + step_down of the seller's concession pattern
step_down_factor(rn) ==
    LET rounds_left == 10 - (rn + 1)
    IN  IF rounds_left >= 6 THEN F1p07
        ELSE IF rounds_left >= 3 THEN F105
        ELSE F1p03

\* 1.28 - (0.06 * min(round_num, 4))
ask_factor(rn) ==
    LET s == Min(rn, 4)
    IN  IF s = 0 THEN F128
        ELSE IF s = 1 THEN F122
        ELSE IF s = 2 THEN F116
        ELSE IF s = 3 THEN F110
        ELSE F104

\* respond_to_buyer_offer with the snap-accept at the fair price, not at 98% of it
respond_to_buyer_offer_snap_at_fair(agent, p, offer, rn) ==
    LET fair == fair_price(p)
        zone == seller_zone(p)
        low == zone[1]
        high == zone[2]
        ask == IF rn = 0 THEN IntMul(fair, F128) ELSE IntMul(fair, ask_factor(rn))
        \* int(max(midpoint, fair * (1.00 + step_down))), midpoint a half of an int
        counter == Max((ask + Max(offer, IntMul(fair, F090))) \div 2,
                       IntMul(fair, step_down_factor(rn)))
        final == IF rn >= 8 THEN Max(counter, fair) ELSE counter
    IN  IF low <= offer /\ offer <= high
        THEN IF ~HasPersonality(agent) THEN AttributeError
             ELSE [status |-> "accepted", price |-> offer, message |-> "Agreed at"]
        ELSE IF offer >= IntMul(fair, F100)
        THEN [status |-> "accepted", price |-> offer, message |-> "That's reasonable"]
        ELSE IF ~HasPersonality(agent) THEN AttributeError
        ELSE [status |-> "ongoing", price |-> final,
              message |-> "I appreciate your offer"]

\* respond_to_buyer_offer that accepts inside the seller zone only
respond_to_buyer_offer_zone_only(agent, p, offer, rn) ==
    LET fair == fair_price(p)
        zone == seller_zone(p)
        low == zone[1]
        high == zone[2]
        ask == IF rn = 0 THEN IntMul(fair, F128) ELSE IntMul(fair, ask_factor(rn))
        counter == Max((ask + Max(offer, IntMul(fair, F090))) \div 2,
                       IntMul(fair, step_down_factor(rn)))
        final == IF rn >= 8 THEN Max(counter, fair) ELSE counter
    IN  IF low <= offer /\ offer <= high
        THEN IF ~HasPersonality(agent) THEN AttributeError
             ELSE [status |-> "accepted", price |-> offer, message |-> "Agreed at"]
        ELSE IF ~HasPersonality(agent) THEN AttributeError
        ELSE [status |-> "ongoing", price |-> final,
              message |-> "I appreciate your offer"]

\* YourSellerAgent.respond_to_buyer_offer: (status, next_price, message)
respond_to_buyer_offer(agent, p, offer, rn) ==
    LET fair == fair_price(p)
        zone == seller_zone(p)
        low == zone[1]
        high == zone[2]
        ask == IF rn = 0 THEN IntMul(fair, F128) ELSE IntMul(fair, ask_factor(rn))
        \* int(max(midpoint, fair * (1.00 + step_down))), midpoint a half of an int
        counter == Max((ask + Max(offer, IntMul(fair, F090))) \div 2,
                       IntMul(fair, step_down_factor(rn)))
        final == IF rn >= 8 THEN Max(counter, fair) ELSE counter
    IN  IF low <= offer /\ offer <= high
        THEN IF ~HasPersonality(agent) THEN AttributeError
             ELSE [status |-> "accepted", price |-> offer, message |-> "Agreed at"]
        ELSE IF offer >= IntMul(fair, F098)
        THEN [status |-> "accepted", price |-> offer, message |-> "That's reasonable"]
        ELSE IF ~HasPersonality(agent) THEN AttributeError
        ELSE [status |-> "ongoing", price |-> final,
              message |-> "I appreciate your offer"]

----------------------------------------------------------------------------
(* Inputs *)

\* quality_grade values: the three grades as the test products write them,
\* other spellings of them, and unrecognized grades
Grades == { <<"A">>, <<"B">>, <<"E","x","p","o","r","t">>,
            <<"a">>, <<" ","B"," ">>, <<"E","X","P","O","R","T">>,
            <<"C">>, <<>>, <<"A","A">> }

\* origin values: the bonus origins in several spellings, and others
Origins == { <<"C","o","l","o","m","b","i","a">>,
             <<"c","o","l","o","m","b","i","a">>,
             <<"E","T","H","I","O","P","I","A">>,
             <<"Y","i","r","g","a","c","h","e","f","f","e">>,
             <<" ","C","o","l","o","m","b","i","a">>,
             <<"R","a","t","n","a","g","i","r","i">>,
             <<"G","u","j","a","r","a","t">> }

Quantities == {-5, 0, 100, 199, 200, 250}

Product(grade, origin, quantity, base) ==
    [quality_grade |-> grade, origin |-> origin, quantity |-> quantity,
     base_market_price |-> base]

\* the products of test_your_agent and of test_buyer_agent
Alphonso == Product(<<"A">>, <<"R","a","t","n","a","g","i","r","i">>, 100, 180000)
Kesar == Product(<<"B">>, <<"G","u","j","a","r","a","t">>, 150, 150000)
Arabica == Product(<<"A">>, <<"C","o","l","o","m","b","i","a">>, 200, 240000)

\* inputs of the pricing model
PricingProducts ==
    { Product(g, o, n, b) : g \in Grades, o \in Origins, n \in Quantities,
                            b \in 1..MaxBase }
    \cup { Product(g, o, n, b) : g \in Grades, o \in Origins, n \in Quantities,
                                 b \in {180000, 240000} }
    \cup {Kesar}

\* base_market_price of the small products: the mock seller opens at MaxPrice
SmallBase == (2 * MaxPrice) \div 3

\* products of the negotiations: small ones of each grade, and Alphonso
SmallProducts ==
    { Product(g, <<"G","u","j","a","r","a","t">>, 100, SmallBase) :
        g \in { <<"A">>, <<"B">>, <<"E","x","p","o","r","t">> } }

Prices == 0..MaxPrice

\* budgets and prices around the Alphonso product (fair price 189000)
AlphonsoBudgets == {144000, 147420, 162000, 180000, 216000}
AlphonsoPrices == {144000, 147420, 160650, 160651, 165000, 166320, 173880,
                   183330, 183331, 189000, 270000}
\* seller_min of the scenarios of test_your_agent, and others
AlphonsoMins == {0, 130000, 144000, 147600, 153000, 160000, 200000}

----------------------------------------------------------------------------
(* The negotiation loop: run_negotiation_test.                             *)
(* pc: "start" (seller and context constructed), "for" (at the head of     *)
(* the for loop), "buyer" (round started, buyer to be called), "seller"    *)
(* (seller to be called), "done" (result built and returned).              *)

\* run_negotiation_test up to the construction of the context
LoopInit(products, budgets, mins) ==
    /\ product \in products
    /\ your_budget \in budgets
    /\ min_price \in mins
    /\ current_round = 0
    /\ seller_offers = <<>>
    /\ your_offers = <<>>
    /\ messages = <<>>
    /\ round_num = -1
    /\ seller_price = 0
    /\ buyer_offer = 0
    /\ status = Unbound
    /\ seller_accepts = FALSE
    /\ deal_made = FALSE
    /\ final_price = None
    /\ pc = "start"
    /\ ret = None
    /\ buyer_agent = buyer
    /\ seller_agent = None

\* "Seller opens": the seller's opening price is recorded
SellerOpens(price) ==
    /\ pc = "start"
    /\ seller_price' = price
    /\ seller_offers' = Append(seller_offers, price)
    /\ messages' = Append(messages, "seller")
    /\ deal_made' = FALSE
    /\ final_price' = None
    /\ pc' = "for"
    /\ UNCHANGED <<product, your_budget, current_round, your_offers, min_price,
                   round_num, buyer_offer, status, seller_accepts, ret,
                   buyer_agent, parked, seller_agent>>

\* ForNext that raises current_round by 2
ForNextByTwo ==
    /\ pc = "for"
    /\ round_num + 1 < 10
    /\ round_num' = round_num + 1
    /\ current_round' = current_round + 2
    /\ pc' = "buyer"
    /\ UNCHANGED <<product, your_budget, seller_offers, your_offers, messages,
                   min_price, seller_price, buyer_offer, status, seller_accepts,
                   deal_made, final_price, ret,
                   buyer_agent, parked, seller_agent>>

\* ForNext without the end of range(10)
ForNextUnbounded ==
    /\ pc = "for"
    /\ round_num' = round_num + 1
    /\ current_round' = round_num' + 1
    /\ pc' = "buyer"
    /\ UNCHANGED <<product, your_budget, seller_offers, your_offers, messages,
                   min_price, seller_price, buyer_offer, status, seller_accepts,
                   deal_made, final_price, ret,
                   buyer_agent, parked, seller_agent>>

\* ForNext with current_round = round_num
ForNextZeroBased ==
    /\ pc = "for"
    /\ round_num + 1 < 10
    /\ round_num' = round_num + 1
    /\ current_round' = round_num'
    /\ pc' = "buyer"
    /\ UNCHANGED <<product, your_budget, seller_offers, your_offers, messages,
                   min_price, seller_price, buyer_offer, status, seller_accepts,
                   deal_made, final_price, ret,
                   buyer_agent, parked, seller_agent>>

\* for round_num in range(10): the next round starts
ForNext ==
    /\ pc = "for"
    /\ round_num + 1 < 10
    /\ round_num' = round_num + 1
    /\ current_round' = round_num' + 1
    /\ pc' = "buyer"
    /\ UNCHANGED <<product, your_budget, seller_offers, your_offers, messages,
                   min_price, seller_price, buyer_offer, status, seller_accepts,
                   deal_made, final_price, ret,
                   buyer_agent, parked, seller_agent>>

\* range(10) is exhausted: the result is built
ForEnd ==
    /\ pc = "for"
    /\ round_num + 1 >= 10
    /\ pc' = "done"
    /\ UNCHANGED <<product, your_budget, current_round, seller_offers, your_offers,
                   messages, min_price, round_num, seller_price, buyer_offer,
                   status, seller_accepts, deal_made, final_price, ret,
                   buyer_agent, parked, seller_agent>>

\* BuyerTurn that forgets deal_made on acceptance
BuyerTurnNoDeal(st, offer) ==
    /\ pc = "buyer"
    /\ status' = st
    /\ buyer_offer' = offer
    /\ your_offers' = Append(your_offers, offer)
    /\ messages' = Append(messages, "buyer")
    /\ IF st = ACCEPTED
       THEN /\ final_price' = Some(seller_price)
            /\ pc' = "done"
            /\ UNCHANGED deal_made
       ELSE /\ UNCHANGED <<deal_made, final_price>>
            /\ pc' = "seller"
    /\ UNCHANGED <<product, your_budget, current_round, seller_offers, min_price,
                   round_num, seller_price, seller_accepts, ret,
                   buyer_agent, parked, seller_agent>>

\* BuyerTurn that settles at the seller's opening price
BuyerTurnOpeningPrice(st, offer) ==
    /\ pc = "buyer"
    /\ status' = st
    /\ buyer_offer' = offer
    /\ your_offers' = Append(your_offers, offer)
    /\ messages' = Append(messages, "buyer")
    /\ IF st = ACCEPTED
       THEN /\ deal_made' = TRUE
            /\ final_price' = Some(seller_offers[1])
            /\ pc' = "done"
       ELSE /\ UNCHANGED <<deal_made, final_price>>
            /\ pc' = "seller"
    /\ UNCHANGED <<product, your_budget, current_round, seller_offers, min_price,
                   round_num, seller_price, seller_accepts, ret,
                   buyer_agent, parked, seller_agent>>

\* BuyerTurn that records the offer but not the message
BuyerTurnSilent(st, offer) ==
    /\ pc = "buyer"
    /\ status' = st
    /\ buyer_offer' = offer
    /\ your_offers' = Append(your_offers, offer)
    /\ messages' = messages
    /\ IF st = ACCEPTED
       THEN /\ deal_made' = TRUE
            /\ final_price' = Some(seller_price)
            /\ pc' = "done"
       ELSE /\ UNCHANGED <<deal_made, final_price>>
            /\ pc' = "seller"
    /\ UNCHANGED <<product, your_budget, current_round, seller_offers, min_price,
                   round_num, seller_price, seller_accepts, ret,
                   buyer_agent, parked, seller_agent>>

\* "Buyer responds": the buyer returned (st, offer)
BuyerTurn(st, offer) ==
    /\ pc = "buyer"
    /\ status' = st
    /\ buyer_offer' = offer
    /\ your_offers' = Append(your_offers, offer)
    /\ messages' = Append(messages, "buyer")
    /\ IF st = ACCEPTED
       THEN /\ deal_made' = TRUE
            /\ final_price' = Some(seller_price)
            /\ pc' = "done"
       ELSE /\ UNCHANGED <<deal_made, final_price>>
            /\ pc' = "seller"
    /\ UNCHANGED <<product, your_budget, current_round, seller_offers, min_price,
                   round_num, seller_price, seller_accepts, ret,
                   buyer_agent, parked, seller_agent>>

\* SellerTurn that writes the new ask over the last recorded one
SellerTurnOverwrites(price, accepts) ==
    /\ pc = "seller"
    /\ seller_price' = price
    /\ seller_accepts' = accepts
    /\ messages' = Append(messages, "seller")
    /\ IF accepts
       THEN /\ deal_made' = TRUE
            /\ final_price' = Some(buyer_offer)
            /\ pc' = "done"
            /\ UNCHANGED seller_offers
       ELSE /\ seller_offers' = [seller_offers EXCEPT ![Len(seller_offers)] = price]
            /\ pc' = "for"
            /\ UNCHANGED <<deal_made, final_price>>
    /\ UNCHANGED <<product, your_budget, current_round, your_offers, min_price,
                   round_num, buyer_offer, status, ret,
                   buyer_agent, parked, seller_agent>>

\* SellerTurn that settles at the seller's previous ask
SellerTurnAskPrice(price, accepts) ==
    /\ pc = "seller"
    /\ seller_price' = price
    /\ seller_accepts' = accepts
    /\ messages' = Append(messages, "seller")
    /\ IF accepts
       THEN /\ deal_made' = TRUE
            /\ final_price' = Some(seller_price)
            /\ pc' = "done"
            /\ UNCHANGED seller_offers
       ELSE /\ seller_offers' = Append(seller_offers, price)
            /\ pc' = "for"
            /\ UNCHANGED <<deal_made, final_price>>
    /\ UNCHANGED <<product, your_budget, current_round, your_offers, min_price,
                   round_num, buyer_offer, status, ret,
                   buyer_agent, parked, seller_agent>>

\* "Seller responds": the seller returned (price, accepts)
SellerTurn(price, accepts) ==
    /\ pc = "seller"
    /\ seller_price' = price
    /\ seller_accepts' = accepts
    /\ messages' = Append(messages, "seller")
    /\ IF accepts
       THEN /\ deal_made' = TRUE
            /\ final_price' = Some(buyer_offer)
            /\ pc' = "done"
            /\ UNCHANGED seller_offers
       ELSE /\ seller_offers' = Append(seller_offers, price)
            /\ pc' = "for"
            /\ UNCHANGED <<deal_made, final_price>>
    /\ UNCHANGED <<product, your_budget, current_round, your_offers, min_price,
                   round_num, buyer_offer, status, ret,
                   buyer_agent, parked, seller_agent>>

\* the result dictionary of run_negotiation_test
Result ==
    [deal_made |-> deal_made,
     final_price |-> final_price,
     rounds |-> current_round,
     savings |-> IF deal_made THEN your_budget - final_price[1] ELSE 0]

(* YourBuyerAgent against MockSellerAgent *)

MockSellerOpens == SellerOpens(get_opening_price(product))

BuyerOpens ==
    /\ round_num = 0
    /\ BuyerTurn(ONGOING, generate_opening_offer(product, your_budget).offer)

\* BuyerResponds of a strategy that keeps its last counter-offer in the agent
\* object and reads it back in place of context.your_offers[-1]
BuyerRespondsRemembering ==
    /\ round_num # 0
    /\ pc = "buyer"
    /\ LET offers == IF "last_offer" \in DOMAIN buyer_agent
                     THEN <<buyer_agent.last_offer>>
                     ELSE your_offers
           r == respond_to_seller_offer(product, your_budget, current_round,
                                        offers, seller_price)
       IN  /\ status' = r.status
           /\ buyer_offer' = r.offer
           /\ your_offers' = Append(your_offers, r.offer)
           /\ messages' = Append(messages, "buyer")
           /\ buyer_agent' = [name |-> buyer_agent.name,
                              personality |-> buyer_agent.personality,
                              last_offer |-> r.offer]
           /\ IF r.status = ACCEPTED
              THEN /\ deal_made' = TRUE
                   /\ final_price' = Some(seller_price)
                   /\ pc' = "done"
              ELSE /\ UNCHANGED <<deal_made, final_price>>
                   /\ pc' = "seller"
    /\ UNCHANGED <<product, your_budget, current_round, seller_offers, min_price,
                   round_num, seller_price, seller_accepts, ret, parked,
                   seller_agent>>

BuyerResponds ==
    /\ round_num # 0
    /\ LET r == respond_to_seller_offer(product, your_budget, current_round,
                                        your_offers, seller_price)
       IN  BuyerTurn(r.status, r.offer)

MockSellerResponds ==
    LET r == respond_to_buyer(min_price, buyer_offer, round_num)
    IN  SellerTurn(r.price, r.accepts)

Init ==
    /\ \/ LoopInit(SmallProducts, Prices \ {0}, Prices)
       \/ LoopInit({Alphonso}, AlphonsoBudgets, AlphonsoMins)
    /\ parked = None

Next ==
    \/ MockSellerOpens
    \/ ForNext
    \/ BuyerOpens
    \/ BuyerResponds
    \/ MockSellerResponds
    \/ ForEnd

Spec == Init /\ [][Next]_vars

----------------------------------------------------------------------------
(* Two calls of run_negotiation_test that take their steps in any order    *)
(* and are given the same buyer_agent.  Each call has its own context and  *)
(* locals: those of the call taking the next step are in the variables,    *)
(* those of the other call are in parked.                                  *)

\* the context and the locals of the call in the variables
Negotiation ==
    [product |-> product, your_budget |-> your_budget,
     current_round |-> current_round, seller_offers |-> seller_offers,
     your_offers |-> your_offers, messages |-> messages,
     min_price |-> min_price, round_num |-> round_num,
     seller_price |-> seller_price, buyer_offer |-> buyer_offer,
     status |-> status, seller_accepts |-> seller_accepts,
     deal_made |-> deal_made, final_price |-> final_price, pc |-> pc]

\* a call of run_negotiation_test(buyer_agent, p, budget, mp) up to the
\* construction of its context
StartOf(p, budget, mp) ==
    [product |-> p, your_budget |-> budget, current_round |-> 0,
     seller_offers |-> <<>>, your_offers |-> <<>>, messages |-> <<>>,
     min_price |-> mp, round_num |-> -1, seller_price |-> 0, buyer_offer |-> 0,
     status |-> Unbound, seller_accepts |-> FALSE, deal_made |-> FALSE,
     final_price |-> None, pc |-> "start"]

\* the other call takes the next steps
Switch ==
    /\ parked # None
    /\ parked' = Negotiation
    /\ product' = parked.product
    /\ your_budget' = parked.your_budget
    /\ current_round' = parked.current_round
    /\ seller_offers' = parked.seller_offers
    /\ your_offers' = parked.your_offers
    /\ messages' = parked.messages
    /\ min_price' = parked.min_price
    /\ round_num' = parked.round_num
    /\ seller_price' = parked.seller_price
    /\ buyer_offer' = parked.buyer_offer
    /\ status' = parked.status
    /\ seller_accepts' = parked.seller_accepts
    /\ deal_made' = parked.deal_made
    /\ final_price' = parked.final_price
    /\ pc' = parked.pc
    /\ UNCHANGED <<ret, buyer_agent, seller_agent>>

\* the arguments of the two calls: small products, budgets below and above
\* the opening offer, seller minima that are met early, late or never
TwoBudgets == {20, 28, MaxPrice}
TwoMins == {25, MaxPrice}
TwoProducts ==
    { Product(g, <<"G","u","j","a","r","a","t">>, 100, SmallBase) :
        g \in { <<"A">>, <<"E","x","p","o","r","t">> } }

InitTwo ==
    /\ LoopInit(TwoProducts, TwoBudgets, TwoMins)
    /\ \E p \in TwoProducts, budget \in TwoBudgets, mp \in TwoMins :
           parked = StartOf(p, budget, mp)

NextTwo ==
    \/ MockSellerOpens
    \/ ForNext
    \/ BuyerOpens
    \/ BuyerResponds
    \/ MockSellerResponds
    \/ ForEnd
    \/ Switch

SpecTwo == InitTwo /\ [][NextTwo]_vars

\* run_negotiation_test as a function of its arguments: the result of the
\* call that starts round rn with the buyer's history offers and the seller
\* price sp
RECURSIVE RunFrom(_, _, _, _, _, _)
RunFrom(p, budget, mp, rn, offers, sp) ==
    IF rn >= 10
    THEN [deal_made |-> FALSE, final_price |-> None, rounds |-> 10, savings |-> 0]
    ELSE LET b == IF rn = 0
                  THEN [status |-> ONGOING,
                        offer |-> generate_opening_offer(p, budget).offer]
                  ELSE respond_to_seller_offer(p, budget, rn + 1, offers, sp)
             s == respond_to_buyer(mp, b.offer, rn)
         IN  IF b.status = ACCEPTED
             THEN [deal_made |-> TRUE, final_price |-> Some(sp),
                   rounds |-> rn + 1, savings |-> budget - sp]
             ELSE IF s.accepts
             THEN [deal_made |-> TRUE, final_price |-> Some(b.offer),
                   rounds |-> rn + 1, savings |-> budget - b.offer]
             ELSE RunFrom(p, budget, mp, rn + 1, Append(offers, b.offer), s.price)

RunAlone(p, budget, mp) == RunFrom(p, budget, mp, 0, <<>>, get_opening_price(p))

\* the result dictionary of a parked call
ResultOf(n) ==
    [deal_made |-> n.deal_made,
     final_price |-> n.final_price,
     rounds |-> n.current_round,
     savings |-> IF n.deal_made THEN n.your_budget - n.final_price[1] ELSE 0]

----------------------------------------------------------------------------
(* The loop with any buyer and any seller strategy: what the strategies    *)
(* return is chosen freely at each call.                                   *)

AnyOffers == {0, MaxPrice}
AnyAsks == {MaxPrice + 1}
\* opening prices: one below every offer, one above every offer
AnyOpeningAsks == {0, MaxPrice + 1}

AnySellerOpens == \E price \in AnyOpeningAsks : SellerOpens(price)

\* AnyBuyerOpens whose status is whatever the strategy would return
AnyBuyerOpensAnyStatus ==
    /\ round_num = 0
    /\ \E st \in DealStatus, offer \in AnyOffers : BuyerTurn(st, offer)

\* round 0: generate_opening_offer returns an offer, the status is ONGOING
AnyBuyerOpens ==
    /\ round_num = 0
    /\ \E offer \in AnyOffers : BuyerTurn(ONGOING, offer)

AnyBuyerResponds ==
    /\ round_num # 0
    /\ \E st \in DealStatus, offer \in AnyOffers : BuyerTurn(st, offer)

AnySellerResponds ==
    \E price \in AnyAsks, accepts \in BOOLEAN : SellerTurn(price, accepts)

InitAny ==
    /\ LoopInit({Alphonso}, {MaxPrice}, {0})
    /\ parked = None

NextAny ==
    \/ AnySellerOpens
    \/ ForNext
    \/ AnyBuyerOpens
    \/ AnyBuyerResponds
    \/ AnySellerResponds
    \/ ForEnd

SpecAny == InitAny /\ [][NextAny]_vars

\* the loop is sequential code: it keeps running until it returns
FairSpecAny == SpecAny /\ WF_vars(NextAny)

----------------------------------------------------------------------------
(* The loop with any buyer strategy against MockSellerAgent: what the      *)
(* buyer returns is chosen freely at each call, the seller is the mock.    *)

\* buyer offers: one the mock seller accepts for some seller_min only, and
\* one above 110% of most of them
MockOffers == {147420, 330000}
\* seller_min: the values of AlphonsoMins, and values at and above the
\* opening price of 270000
MockMins == AlphonsoMins \cup {270000, 270001, 300000, 400000}

MockBuyerOpens ==
    /\ round_num = 0
    /\ \E offer \in MockOffers : BuyerTurn(ONGOING, offer)

MockBuyerResponds ==
    /\ round_num # 0
    /\ \E st \in DealStatus, offer \in MockOffers : BuyerTurn(st, offer)

InitMock ==
    /\ LoopInit({Alphonso}, {216000}, MockMins)
    /\ parked = None

NextMock ==
    \/ MockSellerOpens
    \/ ForNext
    \/ MockBuyerOpens
    \/ MockBuyerResponds
    \/ MockSellerResponds
    \/ ForEnd

SpecMock == InitMock /\ [][NextMock]_vars

----------------------------------------------------------------------------
(* Direct calls of the buyer strategy on any context.                      *)
(* pc: "call open" / "call respond" (arguments chosen), "returned".        *)

CallProduct == Product(<<"A">>, <<"G","u","j","a","r","a","t">>, 100,
                       (2 * CallMaxPrice) \div 3)

\* a context (product, budget, round, offer history) and a seller price
CallInit(products, budgets, histories, asks) ==
    /\ product \in products
    /\ your_budget \in budgets
    /\ current_round \in 0..MaxRound
    /\ your_offers \in histories
    /\ seller_price \in asks
    /\ seller_offers = <<>>
    /\ messages = <<>>
    /\ min_price = 0
    /\ round_num = -1
    /\ buyer_offer = 0
    /\ status = Unbound
    /\ seller_accepts = FALSE
    /\ deal_made = FALSE
    /\ final_price = None
    /\ ret = None
    /\ buyer_agent = buyer
    /\ seller_agent = None
    /\ parked = None

\* contexts in which the step from the last offer decides the proposal: last
\* offers whose product with 1.045 is or is not an integer, a budget just
\* above it and asks beyond the budget
StepBudgets == {54500}
StepOffers == {51999, 52000}
StepAsks == {60000, 270000}

InitBuyer ==
    \/ /\ CallInit({CallProduct}, 1..CallMaxPrice,
                   {<<>>} \cup { <<x>> : x \in 0..CallMaxPrice }, 0..CallMaxPrice)
       /\ pc = "call respond"
    \/ /\ CallInit({Alphonso}, AlphonsoBudgets,
                   {<<>>} \cup { <<x>> : x \in AlphonsoPrices }, AlphonsoPrices)
       /\ pc = "call respond"
    \/ /\ CallInit({CallProduct}, 1..CallMaxPrice,
                   {<<>>} \cup { <<x>> : x \in 0..CallMaxPrice }, {0})
       /\ pc = "call open"
    \/ /\ CallInit({Alphonso}, AlphonsoBudgets, {<<>>}, {0})
       /\ pc = "call open"
    \/ /\ CallInit({Alphonso}, StepBudgets, { <<x>> : x \in StepOffers }, StepAsks)
       /\ pc = "call respond"

CallOpen ==
    /\ pc = "call open"
    /\ ret' = generate_opening_offer(product, your_budget)
    /\ pc' = "returned"
    /\ UNCHANGED <<ctx, min_price, round_num, seller_price, buyer_offer, status,
                   seller_accepts, deal_made, final_price,
                   buyer_agent, parked, seller_agent>>

CallRespond ==
    /\ pc = "call respond"
    /\ ret' = respond_to_seller_offer(product, your_budget, current_round,
                                      your_offers, seller_price)
    /\ pc' = "returned"
    /\ UNCHANGED <<ctx, min_price, round_num, seller_price, buyer_offer, status,
                   seller_accepts, deal_made, final_price,
                   buyer_agent, parked, seller_agent>>

NextBuyer == CallOpen \/ CallRespond

SpecBuyer == InitBuyer /\ [][NextBuyer]_vars

----------------------------------------------------------------------------
(* Direct calls of the pricing model *)

InitPricing ==
    /\ CallInit(PricingProducts, {0}, {<<>>}, {0})
    /\ current_round = 0
    /\ pc = "call fair price"

CallFairPrice ==
    /\ pc = "call fair price"
    /\ ret' = calculate_fair_price(product)
    /\ pc' = "returned"
    /\ UNCHANGED <<ctx, min_price, round_num, seller_price, buyer_offer, status,
                   seller_accepts, deal_made, final_price,
                   buyer_agent, parked, seller_agent>>

NextPricing == CallFairPrice

SpecPricing == InitPricing /\ [][NextPricing]_vars

----------------------------------------------------------------------------
(* Direct calls on a YourSellerAgent object.  pc: "seller" (the object is   *)
(* constructed, a method to be called), "returned fair_price", "returned   *)
(* opening", "returned respond" (the method has returned or raised, ret     *)
(* holds the outcome).                                                      *)

\* products of the seller's pricing model
SellerQuantities == {100, 200, 250}

SellerPricingProducts ==
    { Product(g, o, n, b) : g \in Grades, o \in Origins, n \in SellerQuantities,
                            b \in 1..MaxBase }
    \cup { Product(g, o, n, b) : g \in Grades, o \in Origins, n \in SellerQuantities,
                                 b \in {180000, 240000} }
    \cup {Kesar}

\* buyer offers around the seller's view of the Arabica product (fair price
\* 269791, 98% of it 264395, 110% of it 296770, opening 345332)
ArabicaOffers == {192000, 242811, 264394, 264395, 264396, 269790, 269791,
                  296770, 296771, 345332, 400000}

SellerCallInit(products, offers, rounds) ==
    /\ product \in products
    /\ buyer_offer \in offers
    /\ round_num \in rounds
    /\ seller_agent = NewSeller
    /\ pc = "seller"
    /\ ret = None
    /\ your_budget = 0
    /\ current_round = 0
    /\ seller_offers = <<>>
    /\ your_offers = <<>>
    /\ messages = <<>>
    /\ min_price = 0
    /\ seller_price = 0
    /\ status = Unbound
    /\ seller_accepts = FALSE
    /\ deal_made = FALSE
    /\ final_price = None
    /\ buyer_agent = None
    /\ parked = None

InitSeller ==
    \/ SellerCallInit(SellerPricingProducts, {0}, {0})
    \/ SellerCallInit(SmallProducts, Prices, 0..MaxRound)
    \/ SellerCallInit({Arabica}, ArabicaOffers, 0..MaxRound)

\* seller_agent._init_(name): BaseSellerAgent's initialiser, called by name
CallSellerInit ==
    /\ pc = "seller"
    /\ ~HasPersonality(seller_agent)
    /\ seller_agent' = InitialisedSeller("DiplomatSeller")
    /\ UNCHANGED <<ctx, min_price, round_num, seller_price, buyer_offer, status,
                   seller_accepts, deal_made, final_price, pc, ret,
                   buyer_agent, parked>>

\* seller_agent.fair_price(product)
CallSellerFairPrice ==
    /\ pc = "seller"
    /\ ret' = fair_price(product)
    /\ pc' = "returned fair_price"
    /\ UNCHANGED <<ctx, min_price, round_num, seller_price, buyer_offer, status,
                   seller_accepts, deal_made, final_price,
                   buyer_agent, parked, seller_agent>>

\* seller_agent.generate_opening_price(product)
CallOpeningPrice ==
    /\ pc = "seller"
    /\ ret' = generate_opening_price(seller_agent, product)
    /\ pc' = "returned opening"
    /\ UNCHANGED <<ctx, min_price, round_num, seller_price, buyer_offer, status,
                   seller_accepts, deal_made, final_price,
                   buyer_agent, parked, seller_agent>>

\* seller_agent.respond_to_buyer_offer(product, buyer_offer, round_num)
CallRespondToBuyerOffer ==
    /\ pc = "seller"
    /\ ret' = respond_to_buyer_offer(seller_agent, product, buyer_offer, round_num)
    /\ pc' = "returned respond"
    /\ UNCHANGED <<ctx, min_price, round_num, seller_price, buyer_offer, status,
                   seller_accepts, deal_made, final_price,
                   buyer_agent, parked, seller_agent>>

NextSeller ==
    \/ CallSellerInit
    \/ CallSellerFairPrice
    \/ CallOpeningPrice
    \/ CallRespondToBuyerOffer

SpecSeller == InitSeller /\ [][NextSeller]_vars

----------------------------------------------------------------------------
(* A negotiation with a YourSellerAgent object: its opening price, then    *)
(* the rounds 0 .. 9 in order, each with a buyer offer and the seller's    *)
(* response to it, the calls and the bookkeeping that the loop of          *)
(* run_seller_negotiation_test makes on the seller (lines 592-621).  The   *)
(* buyer's offers are free.  seller_offers holds the opening price and the *)
(* counter-asks so far.  pc: "seller" (object constructed), "rounds buyer" *)
(* (a buyer offer is due), "rounds seller" (the seller is to respond),     *)
(* "raised", "done".                                                       *)

\* buyer offers of a negotiation about p; for the Arabica product the offers
\* that MockBuyerForSeller's methods give for the budgets 240000 and 261000
RoundsOffers(p) == IF p = Arabica THEN {192000, 240000, 256763, 261000} ELSE Prices

InitRounds ==
    \/ SellerCallInit(SmallProducts, {0}, {-1})
    \/ SellerCallInit({Arabica}, {0}, {-1})

\* seller_price, seller_msg = seller_agent.generate_opening_price(product)
RoundsSellerOpens ==
    /\ pc = "seller"
    /\ LET res == generate_opening_price(seller_agent, product)
       IN  IF res = AttributeError
           THEN /\ ret' = res
                /\ pc' = "raised"
                /\ UNCHANGED <<seller_price, seller_offers, messages, round_num>>
           ELSE /\ seller_price' = res.price
                /\ seller_offers' = <<res.price>>
                /\ messages' = Append(messages, "seller")
                /\ round_num' = 0
                /\ pc' = "rounds buyer"
                /\ ret' = ret
    /\ UNCHANGED <<product, your_budget, current_round, your_offers, min_price,
                   buyer_offer, status, seller_accepts, deal_made, final_price,
                   buyer_agent, parked, seller_agent>>

\* the buyer's offer of round round_num
RoundsBuyerOffers ==
    /\ pc = "rounds buyer"
    /\ \E offer \in RoundsOffers(product) : buyer_offer' = offer
    /\ current_round' = round_num + 1
    /\ messages' = Append(messages, "buyer")
    /\ pc' = "rounds seller"
    /\ UNCHANGED <<product, your_budget, seller_offers, your_offers, min_price,
                   round_num, seller_price, status, seller_accepts, deal_made,
                   final_price, ret, buyer_agent, parked, seller_agent>>

\* status, next_price, seller_msg =
\*     seller_agent.respond_to_buyer_offer(product, buyer_offer, round_num)
RoundsSellerResponds ==
    /\ pc = "rounds seller"
    /\ LET res == respond_to_buyer_offer(seller_agent, product, buyer_offer, round_num)
       IN  /\ ret' = res
           /\ messages' = Append(messages, "seller")
           /\ IF res.status = "accepted"
              THEN /\ deal_made' = TRUE
                   /\ final_price' = Some(buyer_offer)
                   /\ pc' = "done"
                   /\ UNCHANGED <<seller_price, seller_offers, round_num>>
              ELSE /\ seller_price' = res.price
                   /\ seller_offers' = Append(seller_offers, res.price)
                   /\ IF round_num < 9
                      THEN round_num' = round_num + 1 /\ pc' = "rounds buyer"
                      ELSE round_num' = round_num /\ pc' = "done"
                   /\ UNCHANGED <<deal_made, final_price>>
    /\ UNCHANGED <<product, your_budget, current_round, your_offers, min_price,
                   buyer_offer, status, seller_accepts, buyer_agent, parked,
                   seller_agent>>

NextRounds ==
    \/ CallSellerInit
    \/ RoundsSellerOpens
    \/ RoundsBuyerOffers
    \/ RoundsSellerResponds

SpecRounds == InitRounds /\ [][NextRounds]_vars

----------------------------------------------------------------------------
(* The seller harness: the factory seller() and run_seller_negotiation_test *)
(* as test_seller_agent uses them.  pc: "call seller" (the factory is to be *)
(* called), "call run" (run_seller_negotiation_test is to be called with   *)
(* the seller object at hand), "seller" (the mock buyer is built, the       *)
(* seller's opening price is due), "raised".  your_budget holds             *)
(* buyer_budget.                                                            *)

\* buyer budgets of test_seller_agent for the Arabica product
SellerTestBudgets == {288000, 240000, 220800}

HarnessInit(products, budgets) ==
    /\ product \in products
    /\ your_budget \in budgets
    /\ \/ pc = "call seller" /\ seller_agent = None
       \/ pc = "call run" /\ seller_agent \in {NewSeller, InitialisedSeller("DiplomatSeller")}
    /\ ret = None
    /\ buyer_offer = 0
    /\ round_num = -1
    /\ current_round = 0
    /\ seller_offers = <<>>
    /\ your_offers = <<>>
    /\ messages = <<>>
    /\ min_price = 0
    /\ seller_price = 0
    /\ status = Unbound
    /\ seller_accepts = FALSE
    /\ deal_made = FALSE
    /\ final_price = None
    /\ buyer_agent = None
    /\ parked = None

InitHarness ==
    \/ HarnessInit({Arabica}, SellerTestBudgets)
    \/ HarnessInit(SmallProducts, Prices)

\* agent = seller()
CallSellerFactory ==
    /\ pc = "call seller"
    /\ IF seller = TypeError
       THEN ret' = TypeError /\ pc' = "raised" /\ seller_agent' = seller_agent
       ELSE ret' = ret /\ pc' = "call run" /\ seller_agent' = seller
    /\ UNCHANGED <<ctx, min_price, round_num, seller_price, buyer_offer, status,
                   seller_accepts, deal_made, final_price, buyer_agent, parked>>

\* run_seller_negotiation_test(seller_agent, product, buyer_budget): its
\* first statement constructs the mock buyer; the opening price and the loop
\* follow when that returns an object
CallRunSellerNegotiationTest ==
    /\ pc = "call run"
    /\ IF NewMockBuyerForSeller(<<your_budget>>) = TypeError
       THEN ret' = TypeError /\ pc' = "raised" /\ buyer_agent' = buyer_agent
       ELSE ret' = ret /\ pc' = "seller"
            /\ buyer_agent' = NewMockBuyerForSeller(<<your_budget>>)
    /\ UNCHANGED <<ctx, min_price, round_num, seller_price, buyer_offer, status,
                   seller_accepts, deal_made, final_price, parked, seller_agent>>

NextHarness == CallSellerFactory \/ CallRunSellerNegotiationTest

SpecHarness == InitHarness /\ [][NextHarness]_vars

----------------------------------------------------------------------------
(* Properties *)

Last(q) == q[Len(q)]

\* C1: every price the buyer returns, from generate_opening_offer and from
\* respond_to_seller_offer (a counter-offer with ONGOING, the acceptance
\* price with ACCEPTED), is at most the budget of the context.
C1_ReturnedPriceWithinBudget ==
    pc = "returned" => ret.offer <= your_budget

\* a counter-offer that the clamp brought down to the budget, the seller
\* asking more than the budget
C1_Witness ==
    /\ pc = "returned"
    /\ ret.message = "I appreciate your position"
    /\ ret.offer = your_budget
    /\ seller_price > your_budget
    /\ your_offers # <<>>
    /\ IntMul(Last(your_offers), concession_factor(current_round)) > your_budget

\* C2: a negotiation that ends in a deal has a final price of at most the
\* buyer's budget, so that the reported savings are not negative, whether the
\* buyer or the seller accepted.
C2_FinalPriceWithinBudget ==
    (pc = "done" /\ deal_made = TRUE)
        => (final_price[1] <= your_budget /\ Result.savings >= 0)

\* the seller accepted an opening offer that the budget had clamped
C2_Witness ==
    /\ pc = "done"
    /\ deal_made = TRUE
    /\ seller_accepts = TRUE
    /\ final_price = Some(your_budget)
    /\ your_budget < IntMul(calculate_fair_price(product), F078)

\* C3: whatever the strategies return, the loop ends, and the buyer has had
\* at most 10 turns.
C3_Terminates ==
    /\ <>(pc = "done")
    /\ [](Len(your_offers) <= 10 /\ round_num < 10)

\* the loop ended after ten buyer turns without a deal
C3_Witness ==
    /\ pc = "done"
    /\ Len(your_offers) = 10
    /\ deal_made = FALSE

\* C4: the loop ends without a deal (deal_made false, no final price, rounds
\* = 10) exactly when all ten rounds passed with neither side accepting (each
\* such round records one buyer offer and one seller offer); a deal always
\* has a final price, and one side accepted it.
C4_TimeoutOutcome ==
    pc = "done" =>
        /\ Result.deal_made = FALSE
              <=> (Len(your_offers) = 10 /\ Len(seller_offers) = 11)
        /\ Result.deal_made = FALSE =>
              /\ Result.final_price = None
              /\ Result.rounds = 10
              /\ status # ACCEPTED
              /\ seller_accepts = FALSE
        /\ Result.deal_made = TRUE =>
              /\ Result.final_price # None
              /\ (status = ACCEPTED \/ seller_accepts = TRUE)

\* ten rounds without acceptance, the buyer answering REJECTED at the end
C4_Witness ==
    /\ pc = "done"
    /\ deal_made = FALSE
    /\ current_round = 10
    /\ status = REJECTED

\* C5: when the buyer returns ACCEPTED the loop ends in that round with a
\* deal at the seller's latest price, and nothing is called afterwards.
C5_BuyerAcceptanceClosesDeal ==
    [][ /\ (pc = "buyer" /\ status' = ACCEPTED) =>
              /\ pc' = "done"
              /\ deal_made' = TRUE
              /\ final_price' = Some(Last(seller_offers))
              /\ seller_offers' = seller_offers
              /\ Result'.rounds = current_round
        /\ (pc = "done" /\ status = ACCEPTED) => UNCHANGED vars ]_vars

\* the buyer accepted, after the first round, a price below the opening one
C5_Witness ==
    /\ pc = "done"
    /\ status = ACCEPTED
    /\ Len(seller_offers) >= 3
    /\ final_price # Some(seller_offers[1])

\* C6: when the buyer did not accept and the seller accepts the buyer's
\* offer, the loop ends in that round with a deal at that offer, and no buyer
\* turn follows.
C6_SellerAcceptanceClosesDeal ==
    [][ /\ (pc = "seller" /\ seller_accepts' = TRUE) =>
              /\ status # ACCEPTED
              /\ pc' = "done"
              /\ deal_made' = TRUE
              /\ final_price' = Some(Last(your_offers))
              /\ your_offers' = your_offers
              /\ Result'.rounds = current_round
        /\ (pc = "done" /\ seller_accepts = TRUE) => UNCHANGED vars ]_vars

\* the seller accepted, after the first round, an offer that is neither the
\* buyer's opening offer nor the seller's previous ask
C6_Witness ==
    /\ pc = "done"
    /\ seller_accepts = TRUE
    /\ Len(your_offers) >= 3
    /\ final_price # Some(your_offers[1])
    /\ final_price # Some(Last(seller_offers))

\* C7: in a negotiation run by the loop the buyer's offers never decrease:
\* every recorded offer is at least the one before it, and so is every
\* ONGOING counter-offer against the last offer of the context it answers.
C7_BuyerOffersNonDecreasing ==
    /\ \A i \in 1..(Len(your_offers) - 1) : your_offers[i] <= your_offers[i + 1]
    /\ (pc = "seller" /\ status = ONGOING /\ Len(your_offers) >= 2)
          => buyer_offer >= your_offers[Len(your_offers) - 1]

\* four rising offers
C7_Witness ==
    /\ Len(your_offers) >= 4
    /\ \A i \in 1..3 : your_offers[i] < your_offers[i + 1]
    /\ pc = "seller"
    /\ status = ONGOING

\* the factors of the claim, in hundredths
C8_QualityFactor(g) ==
    IF g \in { <<"E","x","p","o","r","t">>, <<"E","X","P","O","R","T">> } THEN 115
    ELSE IF g \in { <<"A">>, <<"a">> } THEN 105
    ELSE IF g \in { <<"B">>, <<" ","B"," ">> } THEN 95
    ELSE 100

C8_OriginFactor(o) ==
    IF o \in { <<"C","o","l","o","m","b","i","a">>, <<"c","o","l","o","m","b","i","a">>,
               <<"E","T","H","I","O","P","I","A">>,
               <<"Y","i","r","g","a","c","h","e","f","f","e">> }
    THEN 105 ELSE 100

C8_VolumeFactor(n) == IF n >= 200 THEN 98 ELSE 100

\* x is an integer nearest to base * P0 / Q0
C8_Nearest(x, base, P0, Q0) ==
    LET g == GCD(P0, Q0)
        P == P0 \div g
        Q == Q0 \div g
        bq == base \div Q
        br == base % Q
    IN  2 * Abs(Q * (x - bq * P) - br * P) <= Q

\* C8: the buyer's fair price is base_market_price x quality factor x origin
\* factor x volume factor rounded to a nearest integer, with the factors of
\* the claim (1.0 for an unrecognized grade, for an origin outside the bonus
\* set and for a quantity below 200, zero and negative ones included); it is
\* 189000 for the Alphonso product.
C8_FairPrice ==
    pc = "returned" =>
        /\ C8_Nearest(ret, product.base_market_price,
                      C8_QualityFactor(product.quality_grade)
                          * C8_OriginFactor(product.origin)
                          * C8_VolumeFactor(product.quantity),
                      1000000)
        /\ product = Alphonso => ret = 189000

\* an Export lot of bonus origin and 200 units or more: all three factors
C8_Witness ==
    /\ pc = "returned"
    /\ product.quality_grade = <<"E","X","P","O","R","T">>
    /\ product.origin = <<"E","T","H","I","O","P","I","A">>
    /\ product.quantity = 200
    /\ product.base_market_price = 100
    /\ ret = 118

\* C9: the opening offer is min(floor(0.78 x fair price), budget): 147420 for
\* the fair price 189000 and a budget of 147420 or more, 144000 for the
\* budget 144000.
C9_OpeningOffer ==
    (pc = "returned" /\ ret.message = "my opening is") =>
        /\ ret.offer = Min((78 * calculate_fair_price(product)) \div 100, your_budget)
        /\ (product = Alphonso /\ your_budget >= 147420) => ret.offer = 147420
        /\ (product = Alphonso /\ your_budget = 144000) => ret.offer = 144000

\* the opening offer of the Alphonso scenario with the budget 144000
C9_Witness ==
    /\ pc = "returned"
    /\ ret.message = "my opening is"
    /\ product = Alphonso
    /\ your_budget = 144000
    /\ ret.offer = 144000

\* C10 as claimed: the context's round number is 0 when the loop calls the
\* buyer's opening offer.
C10_OpeningAtRoundZero ==
    (pc = "buyer" /\ round_num = 0) => current_round = 0

\* C10, amended: the context's round number is 1 when the loop calls the
\* buyer's opening offer (the loop sets it to round_num + 1 before the call;
\* it is 0 only before the first round starts).
C10_OpeningAtRoundOne ==
    /\ (pc = "buyer" /\ round_num = 0) => (current_round = 1 /\ your_offers = <<>>)
    /\ pc \in {"start", "for"} /\ round_num = -1 => current_round = 0

\* the loop is about to call generate_opening_offer
C10_Witness ==
    /\ pc = "buyer"
    /\ round_num = 0
    /\ your_offers = <<>>
    /\ Len(seller_offers) = 1

\* C11: zone accept.  Whatever the round number and the offer history, a
\* seller price within the budget and between floor(0.88 x fair price) and
\* floor(0.97 x fair price) is answered with ACCEPTED at the seller price.
C11_ZoneAccept ==
    LET fair == calculate_fair_price(product)
    IN  (/\ pc = "returned"
         /\ ret.message # "my opening is"
         /\ seller_price <= your_budget
         /\ (88 * fair) \div 100 <= seller_price
         /\ seller_price <= (97 * fair) \div 100)
            => (ret.status = ACCEPTED /\ ret.offer = seller_price)

\* a price at the top of the zone accepted in round 2 although the buyer's
\* last offer was 0: the later branches would have countered
C11_Witness ==
    /\ pc = "returned"
    /\ ret.message = "Agreed at"
    /\ seller_price = target_zone(product)[2]
    /\ seller_price > target_zone(product)[1]
    /\ current_round = 2
    /\ your_offers = <<0>>
    /\ proposed_offer(product, your_budget, current_round, your_offers,
                      seller_price) < seller_price
             - IntMul(calculate_fair_price(product), F0015)

\* C12: snap accept.  Whatever the round number and the offer history, a
\* seller price within the budget and at most 0.85 x fair price (at most
\* 160650 for the fair price 189000) is answered with ACCEPTED at the seller
\* price.
C12_SnapAccept ==
    LET fair == calculate_fair_price(product)
    IN  (/\ pc = "returned"
         /\ ret.message # "my opening is"
         /\ seller_price <= your_budget)
            => /\ 100 * seller_price <= 85 * fair
                    => (ret.status = ACCEPTED /\ ret.offer = seller_price)
               /\ (product = Alphonso /\ seller_price <= 160650)
                    => (ret.status = ACCEPTED /\ ret.offer = seller_price)

\* 160650 snap-accepted in round 10 by a buyer whose last offer was 144000
C12_Witness ==
    /\ pc = "returned"
    /\ product = Alphonso
    /\ seller_price = 160650
    /\ current_round = 10
    /\ your_offers = <<144000>>
    /\ ret = [status |-> ACCEPTED, offer |-> 160650, message |-> "That's compelling"]

\* C13: for the Alphonso product (fair price 189000, target zone
\* [166320, 183330]), when the buyer's history holds its opening offer and
\* the seller's second offer is 165000, the zone accept does not trigger and
\* in round 2 (as in every round before the ninth) the buyer answers ONGOING
\* with a counter-offer: 157739 when the budget allows it, else the budget.
C13_BelowZoneIsCountered ==
    (/\ pc = "returned"
     /\ ret.message # "my opening is"
     /\ product = Alphonso
     /\ your_offers = <<generate_opening_offer(product, your_budget).offer>>
     /\ seller_price = 165000)
        => /\ target_zone(product) = <<166320, 183330>>
           /\ ret.message # "Agreed at"
           /\ current_round < 9 => ret.status = ONGOING
           /\ current_round = 2 => ret.offer = Min(157739, your_budget)

\* the scenario with the budget 180000, in round 2
C13_Witness ==
    /\ pc = "returned"
    /\ product = Alphonso
    /\ your_budget = 180000
    /\ current_round = 2
    /\ your_offers = <<147420>>
    /\ seller_price = 165000
    /\ ret = [status |-> ONGOING, offer |-> 157739,
              message |-> "I appreciate your position"]

\* C14: when neither the zone accept nor the snap accept applies, the buyer
\* answers ACCEPTED at the seller price if that price is within the budget
\* and at most floor(0.015 x fair price) away from the proposal, or if it is
\* at most min(budget, proposal); in every other case it answers ONGOING with
\* the counter-offer min(proposal, budget).
C14_ConvergenceDominanceCounter ==
    LET fair == calculate_fair_price(product)
        zoneAccept == /\ seller_price <= your_budget
                      /\ (88 * fair) \div 100 <= seller_price
                      /\ seller_price <= (97 * fair) \div 100
        snapAccept == /\ seller_price <= your_budget
                      /\ 100 * seller_price <= 85 * fair
        proposal == proposed_offer(product, your_budget, current_round,
                                   your_offers, seller_price)
        convergence == /\ seller_price <= your_budget
                       /\ Abs(seller_price - proposal) <= (15 * fair) \div 1000
        dominance == seller_price <= Min(your_budget, proposal)
    IN  (/\ pc = "returned"
         /\ ret.message # "my opening is"
         /\ ~zoneAccept
         /\ ~snapAccept)
            => IF convergence \/ dominance
               THEN ret.status = ACCEPTED /\ ret.offer = seller_price
               ELSE ret.status = ONGOING /\ ret.offer = Min(proposal, your_budget)

\* a convergence accept of a price above the proposal and above the zone
C14_Witness ==
    /\ pc = "returned"
    /\ ret.status = ACCEPTED
    /\ ret.message = "We're aligned"
    /\ seller_price > proposed_offer(product, your_budget, current_round,
                                     your_offers, seller_price)
    /\ seller_price > target_zone(product)[2]

\* C15: the context's round counter starts at 0, never decreases, grows by
\* exactly 1 per buyer turn (the loop raises it when a round starts, so at
\* the n-th buyer turn it is n) and never exceeds 10, whatever the strategies
\* return.
C15_RoundCounter ==
    /\ current_round = 0
    /\ [](current_round \in 0..10)
    /\ [](pc = "buyer" => current_round = Len(your_offers) + 1)
    /\ [](pc \in {"seller", "for", "done"} => current_round = Len(your_offers))
    /\ [][ /\ current_round' >= current_round
           /\ current_round' # current_round
                 => (current_round' = current_round + 1 /\ pc' = "buyer") ]_vars

\* the tenth buyer turn is about to be taken
C15_Witness ==
    /\ pc = "buyer"
    /\ current_round = 10
    /\ Len(your_offers) = 9

\* C16 as claimed: REJECTED and TIMEOUT are terminal like ACCEPTED: once the
\* buyer strategy has returned one of them the loop has ended, and no seller
\* or buyer turn follows.
C16_RejectedTimeoutTerminal ==
    status \in {REJECTED, TIMEOUT} => pc = "done"

\* what the loop does (it tests status == ACCEPTED only): the buyer returned
\* REJECTED, the seller was called all the same and accepted the price that
\* came with the rejection, and the loop reports a deal at that price
C16_Witness ==
    /\ pc = "done"
    /\ status = REJECTED
    /\ seller_accepts = TRUE
    /\ deal_made = TRUE
    /\ final_price = Some(buyer_offer)
    /\ current_round = 2

\* C17: the buyer's open and respond operations leave the context and the
\* agent object as they are (a buyer turn changes only what the loop itself
\* records: the returned offer and its message), and a step of one
\* negotiation changes nothing of the other; so each of two negotiations that
\* share the agent and take their turns in any order ends with the result it
\* has when run alone.
C17_SharedStrategy ==
    /\ [](buyer_agent = buyer)
    /\ [](pc = "done" => Result = RunAlone(product, your_budget, min_price))
    /\ [](parked.pc = "done"
             => ResultOf(parked) = RunAlone(parked.product, parked.your_budget,
                                            parked.min_price))
    /\ [][ /\ (pc = "buyer" /\ parked' = parked) =>
                 /\ <<product, your_budget, current_round, seller_offers>>'
                       = <<product, your_budget, current_round, seller_offers>>
                 /\ your_offers' = Append(your_offers, buyer_offer')
                 /\ messages' = Append(messages, "buyer")
           /\ parked' # parked => (parked' = Negotiation /\ Negotiation' = parked)
         ]_vars

\* one negotiation ended with a deal after three buyer turns while the
\* other, with other arguments, is in its third round or later
C17_Witness ==
    /\ pc = "done"
    /\ deal_made = TRUE
    /\ Len(your_offers) >= 3
    /\ parked.pc = "seller"
    /\ parked.round_num >= 2
    /\ parked.your_budget # your_budget
    /\ parked.your_offers # SubSeq(your_offers, 1, Len(parked.your_offers))

\* old is the beginning of new, and new has at most one entry more
C18_Appended(old, new) ==
    /\ Len(new) \in {Len(old), Len(old) + 1}
    /\ SubSeq(new, 1, Len(old)) = old

\* C18: the seller-offer history, the buyer-offer history and the message
\* log are append-only: a step of the loop leaves every recorded entry as and
\* where it is; and when a round has passed without acceptance (the next
\* round can start) it has added exactly one buyer offer, one seller offer
\* and their two messages, buyer's first.
C18_AppendOnly ==
    /\ [][ /\ C18_Appended(seller_offers, seller_offers')
           /\ C18_Appended(your_offers, your_offers')
           /\ C18_Appended(messages, messages') ]_vars
    /\ [](pc = "for" =>
             /\ Len(your_offers) = round_num + 1
             /\ Len(seller_offers) = round_num + 2
             /\ Len(messages) = 2 * round_num + 3
             /\ \A i \in 1..Len(messages) :
                   messages[i] = IF i % 2 = 1 THEN "seller" ELSE "buyer")

\* four rounds without acceptance, with rising offers and falling asks
C18_Witness ==
    /\ pc = "for"
    /\ round_num = 3
    /\ Len(your_offers) = 4
    /\ Len(seller_offers) = 5
    /\ Len(messages) = 9
    /\ your_offers[1] < your_offers[4]
    /\ seller_offers[1] > seller_offers[5]

\* the factors of the claim for the seller, in hundredths
C19_QualityFactor(g) ==
    IF g \in { <<"E","x","p","o","r","t">>, <<"E","X","P","O","R","T">> } THEN 115
    ELSE IF g \in { <<"A">>, <<"a">> } THEN 106
    ELSE IF g \in { <<"B">>, <<" ","B"," ">> } THEN 94
    ELSE 100

\* the integers nearest to base * P0 / Q0, for products beyond the int range
C19_Nearest(base, P0, Q0) ==
    LET g == GCD(P0, Q0)
        P == P0 \div g
        Q == Q0 \div g
        md == MulDivMod(base % Q, P, Q)
        fl == (base \div Q) * P + md[1]
    IN  IF 2 * md[2] < Q THEN {fl}
        ELSE IF 2 * md[2] > Q THEN {fl + 1}
        ELSE {fl, fl + 1}

\* base_market_price x quality factor x origin factor x 1.01, rounded
C19_Fair(p) ==
    C19_Nearest(p.base_market_price,
                C19_QualityFactor(p.quality_grade) * C8_OriginFactor(p.origin) * 101,
                1000000)

\* C19: the seller's fair price is base_market_price x quality factor x
\* origin factor x 1.01 rounded to a nearest integer, with the quality factor
\* 1.06 for grade A and 1.15 for Export and no factor for the quantity; the
\* opening price a seller object returns is floor(1.28 x that fair price).
C19_SellerFairAndOpening ==
    /\ pc = "returned fair_price" => ret \in C19_Fair(product)
    /\ (pc = "returned opening" /\ ret # AttributeError) =>
          \E fair \in C19_Fair(product) : ret.price = (128 * fair) \div 100

\* the opening price of the Arabica product (grade A, bonus origin, 200
\* units): 345332, from the fair price 269791
C19_Witness ==
    /\ pc = "returned opening"
    /\ product = Arabica
    /\ ret # AttributeError
    /\ ret.price = 345332
    /\ fair_price(product) = 269791

C21_AskNotBelowFairBeforeRound8 ==
    (/\ pc = "returned respond"
     /\ ret # AttributeError
     /\ ret.status = "ongoing"
     /\ round_num < 8)
        => ret.price >= fair_price(product)

\* the lowest counter-ask for the Arabica product before round 8: round 7,
\* a low offer, the ask int(1.03 x 269791)
C21_Witness ==
    /\ pc = "returned respond"
    /\ ret # AttributeError
    /\ product = Arabica
    /\ round_num = 7
    /\ buyer_offer = 192000
    /\ ret.status = "ongoing"
    /\ ret.price = 277884

\* C22: from round 8 on an "ongoing" counter-ask is at least the fair price
\* and for some inputs (the witness) it is exactly the fair price; it is the
\* fair price only where int(1.03 x fair) is the fair price itself.
C22_MaySettleAtFair ==
    (/\ pc = "returned respond"
     /\ ret # AttributeError
     /\ ret.status = "ongoing"
     /\ round_num >= 8)
        => /\ ret.price >= fair_price(product)
           /\ ret.price = fair_price(product)
                 => (103 * fair_price(product)) \div 100 = fair_price(product)

\* a counter-ask equal to the fair price in round 8 or later
C22_Witness ==
    /\ pc = "returned respond"
    /\ ret # AttributeError
    /\ round_num >= 8
    /\ ret.status = "ongoing"
    /\ ret.price = fair_price(product)
    /\ buyer_offer < ret.price

\* C23: in a negotiation the seller's counter-asks never rise from one round
\* to the next, and none is above the seller's opening price.
C23_CounterAsksDescending ==
    /\ \A i \in 2..(Len(seller_offers) - 1) : seller_offers[i + 1] <= seller_offers[i]
    /\ \A i \in 2..Len(seller_offers) : seller_offers[i] <= seller_offers[1]

\* the counter-ask of round 1 above that of round 0: the buyer offered
\* 192000 and then 261000 for the Arabica product
C23_Witness ==
    /\ product = Arabica
    /\ Len(seller_offers) >= 3
    /\ seller_offers[1] = 345332
    /\ seller_offers[2] = 294071
    /\ seller_offers[3] = 295072

\* no counter-ask is above the opening price
C23_NeverAboveOpening ==
    \A i \in 2..Len(seller_offers) : seller_offers[i] <= seller_offers[1]

\* the step of the claim in thousandths, from rounds_left = 10 - current_round
C24_Step(round) ==
    IF 10 - round >= 6 THEN 70
    ELSE IF 10 - round >= 3 THEN 45
    ELSE 30

\* the last offer of the context, the opening anchor if there is none
C24_LastOffer ==
    IF your_offers # <<>> THEN Last(your_offers)
    ELSE (78 * calculate_fair_price(product)) \div 100

\* the integer part of min(budget, max(last_offer, stepped,
\* 0.97 x (last_offer + min(seller_price, budget)) / 2))
C24_CandidateOf(stepped) ==
    Min(your_budget,
        Max(C24_LastOffer,
            Max(stepped,
                (97 * (C24_LastOffer + Min(seller_price, your_budget))) \div 200)))

\* the counter-offer that the candidate cand becomes: floored at 90% of the
\* fair price from round 9 on, capped at max(92% of it, last offer) before
C24_CounterOf(cand) ==
    Min(your_budget,
        IF current_round >= 9
        THEN Min(your_budget, Max(cand, (90 * calculate_fair_price(product)) \div 100))
        ELSE Min(cand, Max((92 * calculate_fair_price(product)) \div 100, C24_LastOffer)))

\* C24: an ONGOING counter-offer is the counter-offer of the candidate
\* int(min(budget, max(last_offer, last_offer x (1 + step), 0.97 x midpoint)))
\* with the step 7%, 4.5% or 3% chosen from 10 - current_round.
C24_CandidateProposal ==
    (pc = "returned" /\ ret.message \in {"To bridge the gap", "I appreciate your position"})
        => ret.offer = C24_CounterOf(C24_CandidateOf(
                           (C24_LastOffer * (1000 + C24_Step(current_round))) \div 1000))

\* the last offer 52000 in round 5: 52000 x 1.045 is 54340, the counter-offer
\* returned is 54339
C24_Witness ==
    /\ pc = "returned"
    /\ product = Alphonso
    /\ your_budget = 54500
    /\ your_offers = <<52000>>
    /\ current_round = 5
    /\ seller_price = 270000
    /\ ret.message = "I appreciate your position"
    /\ ret.offer = 54339

\* the candidate proposal up to the double product last_offer * (1 + 0.045):
\* where last_offer x 1.045 is an integer the double may lie just below it
C24_CandidateUpToOne ==
    (pc = "returned" /\ ret.message \in {"To bridge the gap", "I appreciate your position"})
        => LET stepped == (C24_LastOffer * (1000 + C24_Step(current_round))) \div 1000
           IN  \/ ret.offer = C24_CounterOf(C24_CandidateOf(stepped))
               \/ /\ C24_Step(current_round) = 45
                  /\ (C24_LastOffer * 1045) % 1000 = 0
                  /\ ret.offer = C24_CounterOf(C24_CandidateOf(stepped - 1))

\* C25: before round 9 an ONGOING counter-offer is at most
\* max(floor(0.92 x fair), last_offer); from round 9 on it is at least
\* min(budget, floor(0.90 x fair)), and the 92% cap does not bind it (the
\* witness is above the cap).
C25_CapThenFloor ==
    (pc = "returned" /\ ret.message \in {"To bridge the gap", "I appreciate your position"})
        => LET fair == calculate_fair_price(product)
           IN  /\ current_round < 9
                     => ret.offer <= Max((92 * fair) \div 100, C24_LastOffer)
               /\ current_round >= 9
                     => ret.offer >= Min(your_budget, (90 * fair) \div 100)

\* a counter-offer of round 9 above max(floor(0.92 x fair), last_offer)
C25_Witness ==
    /\ pc = "returned"
    /\ ret.message = "To bridge the gap"
    /\ current_round >= 9
    /\ ret.offer > Max((92 * calculate_fair_price(product)) \div 100, C24_LastOffer)
    /\ ret.offer > (90 * calculate_fair_price(product)) \div 100

\* C26: building the seller through seller() and driving it with
\* run_seller_negotiation_test never ends in an exception.
C26_NeverRaises == pc # "raised"

\* the factory raises TypeError: no seller object, no negotiation
C26_Witness ==
    /\ pc = "raised"
    /\ ret = TypeError
    /\ seller_agent = None
    /\ product = Arabica
    /\ messages = <<>>

\* run_seller_negotiation_test raises TypeError for a seller object built
\* without the factory, before the seller is asked for its opening price
C26_HarnessRaises ==
    /\ pc = "raised"
    /\ ret = TypeError
    /\ seller_agent = InitialisedSeller("DiplomatSeller")
    /\ seller_offers = <<>>

\* C27: on an empty buyer-offer history respond_to_seller_offer returns the
\* status and the price it returns on the same context with the history that
\* holds exactly the offer of generate_opening_offer, for every budget.
C27_AnchorIsOpeningOffer ==
    (pc = "returned" /\ ret.message # "my opening is" /\ your_offers = <<>>)
        => LET opening == generate_opening_offer(product, your_budget).offer
               other == respond_to_seller_offer(product, your_budget, current_round,
                                                <<opening>>, seller_price)
           IN  ret.status = other.status /\ ret.offer = other.offer

\* a budget below 78% of the fair price (147420 for the Alphonso product),
\* an empty history and an ask that is countered
C27_Witness ==
    /\ pc = "returned"
    /\ ret.message # "my opening is"
    /\ your_offers = <<>>
    /\ product = Alphonso
    /\ your_budget = 144000
    /\ seller_price = 270000
    /\ ret.status = ONGOING
    /\ ret.offer = 144000

\* C28: an ONGOING counter-offer of respond_to_seller_offer is strictly
\* below the seller price it answers, in every context.
C28_CounterBelowAsk ==
    (pc = "returned" /\ ret.message \in {"To bridge the gap", "I appreciate your position"})
        => (ret.status = ONGOING /\ ret.offer < seller_price)

\* the closest counter-offer: the whole budget against an ask one above it
C28_Witness ==
    /\ pc = "returned"
    /\ ret.message = "I appreciate your position"
    /\ ret.status = ONGOING
    /\ ret.offer = your_budget
    /\ seller_price = your_budget + 1

\* the seller prices at which the other calls of C29 are made: all of them
\* for the small product, those of the inputs for the Alphonso product
C29_Asks ==
    IF product = Alphonso THEN AlphonsoPrices \cup StepAsks ELSE 0..CallMaxPrice

\* C29: if respond_to_seller_offer returns ACCEPTED for a seller price, it
\* returns ACCEPTED on the same context (product, budget, round, offer
\* history) for every lower seller price above 0.
C29_AcceptanceDownwardClosed ==
    (pc = "returned" /\ ret.message # "my opening is" /\ ret.status = ACCEPTED)
        => \A q \in C29_Asks :
              (0 < q /\ q <= seller_price)
                  => respond_to_seller_offer(product, your_budget, current_round,
                                             your_offers, q).status = ACCEPTED

\* the Alphonso product in round 1 after an offer of 147420: the ask 166320
\* is accepted, the lower ask 165000 is countered
C29_Witness ==
    /\ pc = "returned"
    /\ product = Alphonso
    /\ your_budget = 216000
    /\ current_round = 1
    /\ your_offers = <<147420>>
    /\ seller_price = 166320
    /\ ret.message = "Agreed at"
    /\ ret.status = ACCEPTED
    /\ respond_to_seller_offer(product, your_budget, current_round, your_offers,
                               165000).status = ONGOING

\* C30: when run_negotiation_test calls the buyer strategy in round k
\* (current_round = k, 1 <= k <= 10), context.your_offers has k - 1 entries,
\* context.seller_offers has k entries and context.messages has 2k - 1
\* entries with the roles seller, buyer, seller, ... in turn.
C30_HistoriesAtBuyerCall ==
    pc = "buyer" =>
        /\ 1 <= current_round /\ current_round <= 10
        /\ Len(your_offers) = current_round - 1
        /\ Len(seller_offers) = current_round
        /\ Len(messages) = 2 * current_round - 1
        /\ \A i \in 1..Len(messages) :
              messages[i] = IF i % 2 = 1 THEN "seller" ELSE "buyer"

\* the buyer is called in round 10 with 9 offers of its own, 10 of the
\* seller and 19 messages
C30_Witness ==
    /\ pc = "buyer"
    /\ current_round = 10
    /\ Len(your_offers) = 9
    /\ Len(seller_offers) = 10
    /\ Len(messages) = 19
    /\ messages[19] = "seller"

\* C31: in run_negotiation_test the buyer never accepts on its first turn,
\* whatever the seller's opening price: through round 1 the buyer's status is
\* ONGOING, and a deal concluded in round 1 was accepted by the seller, at
\* the buyer's opening offer.
C31_RoundOneDeal ==
    /\ (current_round = 1 /\ pc \in {"seller", "done"}) => status = ONGOING
    /\ (pc = "done" /\ deal_made /\ current_round = 1) =>
          /\ seller_accepts
          /\ Len(your_offers) = 1
          /\ final_price = Some(your_offers[1])
          /\ final_price = Some(buyer_offer)

\* a deal of round 1, although the seller opened below the buyer's offer
C31_Witness ==
    /\ pc = "done"
    /\ deal_made
    /\ current_round = 1
    /\ seller_accepts
    /\ seller_offers[1] < your_offers[1]
    /\ final_price = Some(your_offers[1])

\* C32: in run_negotiation_test with MockSellerAgent and a seller_min that
\* is not negative, the final price of every deal is at least seller_min,
\* whichever side accepted and whether or not the opening price of the
\* seller is below seller_min.
C32_DealNotBelowSellerMin ==
    (deal_made /\ min_price >= 0) =>
        /\ final_price # None
        /\ final_price[1] >= min_price

\* the buyer accepted a price of a seller whose opening price was below
\* seller_min
C32_Witness ==
    /\ pc = "done"
    /\ deal_made
    /\ status = ACCEPTED
    /\ seller_offers[1] < min_price
    /\ final_price = Some(Last(seller_offers))
    /\ final_price[1] >= min_price

C33_SellerSideFloor ==
    /\ deal_made => final_price[1] >= IntMul(fair_price(product), F098)
    /\ \A i \in 1..Len(seller_offers) : seller_offers[i] >= fair_price(product)

\* C34: in a negotiation run by run_negotiation_test with YourBuyerAgent, a
\* price the buyer accepts in a round with current_round < 9 is at most
\* floor(0.97 x fair price), and every offer the buyer makes in those rounds
\* (its opening offer and its counter-offers) is at most
\* floor(0.92 x fair price).
C34_EarlyRoundCeilings ==
    LET fair == calculate_fair_price(product)
        accepted == pc = "done" /\ status = ACCEPTED
    IN  /\ (accepted /\ current_round < 9) =>
              final_price[1] <= IntMul(fair, F097)
        /\ \A i \in 1..Len(your_offers) :
              (i < 9 /\ ~(accepted /\ i = Len(your_offers))) =>
                  your_offers[i] <= IntMul(fair, F092)

\* the buyer accepted, before round 9, a price between the two ceilings,
\* after an opening offer below both
C34_Witness ==
    /\ pc = "done"
    /\ status = ACCEPTED
    /\ current_round < 9
    /\ final_price[1] > IntMul(calculate_fair_price(product), F092)
    /\ final_price[1] <= IntMul(calculate_fair_price(product), F097)
    /\ your_offers[1] < IntMul(calculate_fair_price(product), F092)

====
